---- MODULE Spec2Model ----
(***************************************************************************)
(* The worker of the resolver daemon (daemon/worker.c, daemon/io.c): tasks *)
(* driven through qr_task_step by the callbacks of one event loop, with    *)
(* retransmission, timeouts, subrequest coalescing and reference counting. *)
(*                                                                         *)
(* The resolver layers (kr_resolve_consume / kr_resolve_produce) and libuv *)
(* are the environment: each value they return is a nondeterministic       *)
(* choice.  One action is one callback of the loop, run to completion;     *)
(* the nested calls of a callback (follower wake-ups, immediate re-entry   *)
(* of qr_task_step) are part of that action.  Operators that model code    *)
(* take the worker state as a record s and return the set of states the    *)
(* call may end in, one for each choice of the environment.                *)
(***************************************************************************)
EXTENDS Integers, Sequences, FiniteSets, TLC

(* ------------------------------ bounds -------------------------------- *)
\* Tasks ever created in one behaviour.
MaxTasks == 3
\* Distinct (qname, qtype, qclass) fingerprints the layers ask for.
MaxKeys == 2
\* Client TCP connections.
MaxConns == 1
\* Longest chain of immediate re-entries of qr_task_step the environment
\* causes inside one callback (no address list, send or connect not started).
MaxReentry == 1
\* The layers ask for I/O only while iter_count is below this.
MaxIoIter == 2
\* Candidate addresses of a nameserver (KR_NSREP_MAXADDR, lib/nsrep.h of the
\* worker's revision; the value is not in the sources at hand).
KR_NSREP_MAXADDR == 2
\* Capacity of a packet buffer, and the longest TCP chunk, in bytes.
MaxPktSize == 3
\* Queries dropped in one behaviour.
MaxDropped == 2
\* Transaction handles of the cache's callers.
MaxTxns == 3
\* Transactions begun on one cache.
MaxBegins == 4
\* The clock of the cache's callers runs from 0 to this.
MaxTime == 3
\* The greatest TTL of a record.
MaxTtl == 2
\* Queries pushed to one resolution plan.
MaxQueries == 4
\* The length the worker's freelists are cut at (MP_FREELIST_SIZE of
\* daemon/worker.h; the value is not in the sources at hand).
MP_FREELIST_SIZE == 1
\* An address has at most this many endpoints.
MaxEndpoints == 2

(* ------------------------- program constants -------------------------- *)
\* The iteration limit (ITER_LIMIT of lib/resolve.c; the worker's name for it
\* is KR_ITER_LIMIT).
KR_ITER_LIMIT == 50
MAX_PENDING == KR_NSREP_MAXADDR + (KR_NSREP_MAXADDR \div 2)
U16 == 65536

ESTALE == -116
EIO == -5
EINVAL == -22
EPROTO == -71
EMSGSIZE == -90

TaskIds == 1..MaxTasks
Keys == 1..MaxKeys
ConnIds == 1..MaxConns
NoTask == 0
NullAddr == -1

(* --------------------------- the state -------------------------------- *)
VARIABLES
    tasks,        \* struct qr_task of every task, by id
    outstanding,  \* worker->outstanding: fingerprint -> leader (NoTask: no entry)
    conns,        \* accepted client TCP handles: referenced by the loop, reading
    concurrent,   \* worker->stats.concurrent
    queries,      \* worker->stats.queries
    dropped,      \* worker->stats.dropped
    timeouts,     \* worker->stats.timeout
    errs,         \* failed assertions and memory errors seen so far
    log,          \* what the callback that ran last did, in order
    cache,        \* struct kr_cache, its store and the transactions on it
    res,          \* the last call of the cache API and its result
    rplan,        \* struct kr_rplan: its queries, pending and resolved
    heap,         \* worker->pools, worker->ioreqs and the objects they recycle
    net,          \* struct network: the endpoints of every address, the last call
    env           \* the limits of this run's environment (fixed by Init)

vars == <<tasks, outstanding, conns, concurrent, queries, dropped, timeouts, errs, log, cache,
          res, rplan, heap, net, env>>

\* The worker state a callback starts from; ret is the value the last
\* qr_task_step / worker_process_tcp returned.
St == [tasks |-> tasks, outstanding |-> outstanding, conns |-> conns,
       concurrent |-> concurrent, queries |-> queries, dropped |-> dropped,
       timeouts |-> timeouts, errs |-> errs, log |-> <<>>, ret |-> 0, env |-> env]

Commit(s) ==
    /\ tasks' = s.tasks
    /\ outstanding' = s.outstanding
    /\ conns' = s.conns
    /\ concurrent' = s.concurrent
    /\ queries' = s.queries
    /\ dropped' = s.dropped
    /\ timeouts' = s.timeouts
    /\ errs' = s.errs
    /\ log' = s.log
    /\ env' = env
    /\ UNCHANGED <<cache, res, rplan, heap, net>>

\* The query a task resolves now (the tail of its plan's pending list), if
\* it has one, with its DNS id and its case-randomization secret.
NoQry == [has |-> FALSE, id |-> 0, secret |-> 0]
\* The random id and secret the layers give the query of task t: values of
\* its own, not 0.
NewQry(t) == [has |-> TRUE, id |-> t, secret |-> t]

\* A task slot before qr_task_create.
NoTaskRec ==
    [st |-> "none", src |-> "none", conn |-> 0,
     finished |-> FALSE, leading |-> FALSE, waiting |-> <<>>,
     pending |-> <<>>, dead |-> 0,
     retry |-> "idle", timeout |-> "idle",
     refs |-> 0, iter_count |-> 0,
     bytes_remaining |-> 0, pktbuf |-> <<>>, rx |-> <<>>, key |-> 1,
     addrlist |-> NullAddr, addrlist_count |-> 0, addrlist_turn |-> 0,
     ans_inflight |-> FALSE, qry |-> NoQry,
     answers |-> 0, completes |-> 0, nproduce |-> 0, dgrams |-> 0]

\* The (source address, packet) pair qr_task_step is called with.
In(src, pkt) == [src |-> src, pkt |-> pkt]
NullIn == In("null", "null")

Err(s, e) == [s EXCEPT !.errs = @ \cup {e}]
Ret(s, r) == [s EXCEPT !.ret = r]
Log(s, ev, t, x, in) ==
    [s EXCEPT !.log = Append(@, [ev |-> ev, t |-> t, x |-> x, src |-> in.src, pkt |-> in.pkt])]

\* A callback dereferences the task pointer it was registered with.
Touch(s, t) == IF s.tasks[t].st = "live" THEN s ELSE Err(s, "use_after_free")

(* ---------------------- reference counting ---------------------------- *)
\* The pool of the task goes back to the worker: what the task held (its
\* request, packet buffer and address list) is gone; the fields the pending
\* callbacks of the loop refer to are kept to tell a late use.
qr_task_free(s, t) ==
    LET T  == s.tasks[t]
        s1 == IF T.st = "freed" THEN Err(s, "double_free") ELSE s
    IN  Log([s1 EXCEPT !.tasks[t] =
                [NoTaskRec EXCEPT !.st = "freed", !.refs = T.refs, !.dead = T.dead,
                                  !.pending = T.pending, !.waiting = T.waiting,
                                  !.leading = T.leading, !.finished = T.finished,
                                  !.retry = T.retry, !.timeout = T.timeout,
                                  !.ans_inflight = T.ans_inflight,
                                  !.answers = T.answers, !.completes = T.completes]],
            "free", t, 0, NullIn)

qr_task_ref(s, t) == [s EXCEPT !.tasks[t].refs = (@ + 1) % U16]

qr_task_unref(s, t) ==
    LET s0 == IF s.tasks[t].refs = 0 THEN Err(s, "refs_underflow") ELSE s
        s1 == Log([s0 EXCEPT !.tasks[t].refs = (@ + U16 - 1) % U16], "unref", t, 0, NullIn)
    IN  IF s1.tasks[t].refs = 0 THEN qr_task_free(s1, t) ELSE s1

(* --------------------------- I/O requests ----------------------------- *)
\* A handle of pending[]: its socket type, the address index it was sent
\* to, and its phase: "conn" connect request in flight, "send" send or write
\* request in flight, "read" reading, "idle" neither.
Handle(type, ph, addr) == [type |-> type, ph |-> ph, addr |-> addr]

InFlight(h) == h.ph \in {"send", "conn"}

\* A faulty ioreq_killall: the handles are closed but pending_count is not
\* reset, so the next call closes them again.
ioreq_killall_keeps_count(s, t) ==
    LET P == s.tasks[t].pending
        n == Cardinality({i \in 1..Len(P) : InFlight(P[i])})
    IN  [s EXCEPT !.tasks[t].dead = @ + n, !.tasks[t].rx = <<>>]

\* ioreq_kill on every pending handle: the handles start closing; a request
\* still in flight on one of them keeps its reference until its callback.
\* rx, the chunks its stream has delivered, goes with the stream.
ioreq_killall(s, t) ==
    LET P == s.tasks[t].pending
        n == Cardinality({i \in 1..Len(P) : InFlight(P[i])})
    IN  [s EXCEPT !.tasks[t].pending = <<>>,
                  !.tasks[t].dead = @ + n,
                  !.tasks[t].rx = <<>>]

uv_close_timer(s, t, which) ==
    IF s.tasks[t][which] \in {"closing", "closed"}
    THEN Err(s, "double_close")
    ELSE [s EXCEPT !.tasks[t][which] = "closing"]

\* handle: index into pending[], 0 for the source handle or no handle.
qr_task_on_send(s, t, handle, status) ==
    IF ~s.tasks[t].finished
    THEN IF status = 0 /\ handle # 0
         THEN [s EXCEPT !.tasks[t].pending[handle].ph = "read"]
         ELSE IF handle # 0
              THEN Log([s EXCEPT !.tasks[t].pending[handle].ph = "idle"],
                       "ioerr", t, s.tasks[t].pending[handle].addr, NullIn)
              ELSE s
    ELSE uv_close_timer(uv_close_timer(qr_task_ref(s, t), t, "retry"), t, "timeout")

\* A faulty qr_task_send: the send request does not take a reference.
qr_task_send_answer_noref(s, t, sendok) ==
    LET s1 == Log([s EXCEPT !.tasks[t].answers = @ + 1], "answer", t, 0, NullIn)
    IN  IF s.tasks[t].src = "none"
        THEN qr_task_on_send(s1, t, 0, EIO)
        ELSE IF sendok
             THEN [s1 EXCEPT !.tasks[t].ans_inflight = TRUE]
             ELSE s1

\* qr_task_send of the answer on source.handle; sendok: uv_udp_send / uv_write
\* accepted the request.
qr_task_send_answer(s, t, sendok) ==
    LET s1 == Log([s EXCEPT !.tasks[t].answers = @ + 1], "answer", t, 0, NullIn)
    IN  IF s.tasks[t].src = "none"
        THEN qr_task_on_send(s1, t, 0, EIO)
        ELSE IF sendok
             THEN qr_task_ref([s1 EXCEPT !.tasks[t].ans_inflight = TRUE], t)
             ELSE s1

\* qr_task_send on a stream of pending[] after connect (on_connect).
qr_task_send_stream(s, t, handle, sendok) ==
    IF sendok
    THEN qr_task_ref([s EXCEPT !.tasks[t].pending[handle].ph = "send"], t)
    ELSE Log([s EXCEPT !.tasks[t].pending[handle].ph = "idle"],
             "ioerr", t, s.tasks[t].pending[handle].addr, NullIn)

\* A faulty retransmit: ioreq_spawn does not look at pending_count.
retransmit_unbounded(s, t, sendok) ==
    LET T == s.tasks[t] IN
    IF T.addrlist = NullAddr
    THEN [s |-> s, ok |-> FALSE]
    ELSE IF sendok
         THEN [s |-> Log(qr_task_ref(
                        [s EXCEPT !.tasks[t].pending = Append(@, Handle("udp", "send", T.addrlist_turn)),
                                  !.tasks[t].dgrams = @ + 1,
                                  !.tasks[t].addrlist_turn = (@ + 1) % T.addrlist_count], t),
                        "dgram", t, T.addrlist_turn, NullIn),
               ok |-> TRUE]
         ELSE [s |-> Log([s EXCEPT !.tasks[t].pending =
                                       Append(@, Handle("udp", "idle", T.addrlist_turn))],
                         "ioerr", t, T.addrlist_turn, NullIn),
               ok |-> FALSE]

\* A faulty retransmit: the turn is not advanced.
retransmit_stuck(s, t, sendok) ==
    LET T == s.tasks[t] IN
    IF T.addrlist = NullAddr \/ Len(T.pending) >= MAX_PENDING
    THEN [s |-> s, ok |-> FALSE]
    ELSE IF sendok
         THEN [s |-> Log(qr_task_ref(
                        [s EXCEPT !.tasks[t].pending = Append(@, Handle("udp", "send", T.addrlist_turn)),
                                  !.tasks[t].dgrams = @ + 1], t),
                        "dgram", t, T.addrlist_turn, NullIn),
               ok |-> TRUE]
         ELSE [s |-> Log([s EXCEPT !.tasks[t].pending =
                                       Append(@, Handle("udp", "idle", T.addrlist_turn))],
                         "ioerr", t, T.addrlist_turn, NullIn),
               ok |-> FALSE]

\* The remainder of a division by addrlist_count; by 0 it is undefined (a
\* trap, or any value): the mark stands for every outcome.
Rem(s, n) == IF n = 0 THEN Err(s, "div_by_zero") ELSE s
Mod(x, n) == IF n = 0 THEN 0 ELSE x % n

\* retransmit: spawn a datagram handle and send pktbuf to addrlist[turn].
retransmit(s, t, sendok) ==
    LET T == s.tasks[t] IN
    IF T.addrlist = NullAddr \/ Len(T.pending) >= MAX_PENDING
    THEN [s |-> s, ok |-> FALSE]
    ELSE IF sendok
         THEN [s |-> Log(qr_task_ref(
                        [Rem(s, T.addrlist_count)
                            EXCEPT !.tasks[t].pending = Append(@, Handle("udp", "send", T.addrlist_turn)),
                                   !.tasks[t].dgrams = @ + 1,
                                   !.tasks[t].addrlist_turn = Mod(@ + 1, T.addrlist_count)], t),
                        "dgram", t, T.addrlist_turn, NullIn),
               ok |-> TRUE]
         ELSE [s |-> Log([s EXCEPT !.tasks[t].pending =
                                       Append(@, Handle("udp", "idle", T.addrlist_turn))],
                         "ioerr", t, T.addrlist_turn, NullIn),
               ok |-> FALSE]

(* ------------------------- coalescing --------------------------------- *)
subreq_key(s, t) == s.tasks[t].key

\* A faulty subreq_lead: the entry is stored but the task is not marked.
subreq_lead_unmarked(s, t) ==
    LET k == subreq_key(s, t)
    IN  Log([s EXCEPT !.outstanding[k] = t], "lead", t, k, NullIn)

subreq_lead(s, t) ==
    LET k == subreq_key(s, t)
        s1 == IF s.outstanding[k] # NoTask THEN Err(s, "assert_lead_contains") ELSE s
    IN  Log([s1 EXCEPT !.outstanding[k] = t, !.tasks[t].leading = TRUE], "lead", t, k, NullIn)

\* reserve_ok: array_reserve_mm grew the leader's waiting list.
subreq_enqueue(s, t, reserve_ok) ==
    LET leader == s.outstanding[subreq_key(s, t)] IN
    IF leader # NoTask /\ reserve_ok
    THEN [s |-> Log(qr_task_ref([Touch(s, leader) EXCEPT !.tasks[leader].waiting = Append(@, t)], t),
                    "enqueue", t, leader, NullIn),
          ok |-> TRUE]
    ELSE [s |-> s, ok |-> FALSE]

qr_task_finalize(s, t, state, sendok) ==
    LET s1 == IF s.tasks[t].leading THEN Err(s, "assert_finalize_leading") ELSE s
        s2 == Log([s1 EXCEPT !.tasks[t].finished = TRUE], "finalize", t, 0, In("null", state))
    IN  Ret(qr_task_send_answer(s2, t, sendok), IF state = "DONE" THEN 0 ELSE EIO)

(* ---------------------- the environment ------------------------------- *)
\* What kr_resolve_consume may return: PRODUCE, a final state, or a state
\* that is neither (CONSUME, NOOP), written "NOOP".
ConsumeResults(s, d) ==
    {"PRODUCE", "DONE", "FAIL"} \cup (IF d < s.env.reentry THEN {"NOOP"} ELSE {})

\* How many times kr_resolve_produce is called until it returns a state
\* other than PRODUCE (were the loop not cut short by the limit).
ProduceRuns(s) == s.env.runs

AddrCounts == {KR_NSREP_MAXADDR}

\* What the last kr_resolve_produce of a run leaves: the state, the address
\* list (NullAddr, or the number of entries before the terminator), the
\* socket type and the question written to pktbuf (one byte on the wire,
\* its fingerprint).
ProduceFinals(s, t, d) ==
    LET k0 == s.tasks[t].key IN
    {[state |-> st, addr |-> NullAddr, sock |-> "NONE", key |-> k0] : st \in {"DONE", "FAIL"}}
    \cup (IF d < s.env.reentry
          THEN {[state |-> "CONSUME", addr |-> NullAddr, sock |-> "NONE", key |-> k0]}
          ELSE {})
    \cup (IF s.tasks[t].iter_count < s.env.io
          THEN {[state |-> "CONSUME", addr |-> n, sock |-> sk, key |-> k] :
                    n \in AddrCounts, sk \in s.env.socks, k \in s.env.keys}
          ELSE {})
    \cup (IF "empty" \in s.env.faults /\ d < s.env.reentry /\ s.tasks[t].iter_count < s.env.io
          THEN {[state |-> "CONSUME", addr |-> 0, sock |-> sk, key |-> k] :
                    sk \in s.env.socks, k \in s.env.keys}
          ELSE {})

\* uv_udp_send / uv_write / uv_tcp_connect accept the request or not.
StartResults(s, d) ==
    IF "start" \in s.env.faults /\ d < s.env.reentry THEN {TRUE, FALSE} ELSE {TRUE}
\* The same for the answer and for a retransmission from the retry timer.
SendResults(s) == IF "send" \in s.env.faults THEN {TRUE, FALSE} ELSE {TRUE}
\* The status a send, write or connect request completes with.
Statuses(s) == IF "status" \in s.env.faults THEN {0, EIO} ELSE {0}
\* array_reserve_mm on the leader's waiting list succeeds or not.
ReserveResults(s) == IF "reserve" \in s.env.faults THEN {TRUE, FALSE} ELSE {TRUE}
\* uv_timer_start on the timeout timer succeeds or not.
TimerStartResults(s) == IF "timer" \in s.env.faults THEN {TRUE, FALSE} ELSE {TRUE}

(* --------------------------- qr_task_step ----------------------------- *)
RECURSIVE qr_task_step(_, _, _, _)

Finalize(s, t, state) ==
    IF s.tasks[t].src = "none"
    THEN {qr_task_finalize(s, t, state, FALSE)}
    ELSE {qr_task_finalize(s, t, state, ok) : ok \in SendResults(s)}

\* The follower f of leader t is about to be stepped: its query, if it has
\* one, takes the id and the secret of the leader's, whose secret is zeroed.
align(s, t, f, in) ==
    LET lq == s.tasks[t].qry IN
    IF s.tasks[f].qry.has
    THEN Log([s EXCEPT !.tasks[f].qry.id = lq.id,
                       !.tasks[f].qry.secret = lq.secret,
                       !.tasks[t].qry.secret = 0],
             "wake", f, <<t, lq.id, lq.secret>>, in)
    ELSE Log(s, "wake", f, <<t, 0, 0>>, in)

RECURSIVE WakeLoop(_, _, _, _)
\* A faulty wake-up loop: the leader keeps its secret.
WakeLoop_keeps_secret(s, t, in, i) ==
    IF i = 0
    THEN {[s EXCEPT !.tasks[t].waiting = <<>>, !.tasks[t].leading = FALSE]}
    ELSE LET f == s.tasks[t].waiting[i]
             s0 == align(Touch(s, f), t, f, in)
             s1 == [s0 EXCEPT !.tasks[t].qry.secret = s.tasks[t].qry.secret]
         IN  UNION {WakeLoop(qr_task_unref(s2, f), t, in, i - 1) :
                        s2 \in qr_task_step(s1, f, in, 0)}

\* A faulty wake-up loop: the followers are stepped as after a timeout,
\* whatever the leader was stepped with.
WakeLoop_null(s, t, in, i) ==
    IF i = 0
    THEN {[s EXCEPT !.tasks[t].waiting = <<>>, !.tasks[t].leading = FALSE]}
    ELSE LET f == s.tasks[t].waiting[i]
             s1 == align(Touch(s, f), t, f, in)
         IN  UNION {WakeLoop(qr_task_unref(s2, f), t, in, i - 1) :
                        s2 \in qr_task_step(s1, f, NullIn, 0)}

\* A faulty wake-up loop: the task stays marked as leading after it.
WakeLoop_leading(s, t, in, i) ==
    IF i = 0
    THEN {[s EXCEPT !.tasks[t].waiting = <<>>]}
    ELSE LET f == s.tasks[t].waiting[i]
             s1 == align(Touch(s, f), t, f, in)
         IN  UNION {WakeLoop(qr_task_unref(s2, f), t, in, i - 1) :
                        s2 \in qr_task_step(s1, f, in, 0)}

\* The loop of subreq_finalize over task->waiting, last entry first.
WakeLoop(s, t, in, i) ==
    IF i = 0
    THEN {[s EXCEPT !.tasks[t].waiting = <<>>, !.tasks[t].leading = FALSE]}
    ELSE LET f == s.tasks[t].waiting[i]
             s1 == align(Touch(s, f), t, f, in)
         IN  UNION {WakeLoop(qr_task_unref(s2, f), t, in, i - 1) :
                        s2 \in qr_task_step(s1, f, in, 0)}

uv_timer_stop(s, t, which) ==
    IF s.tasks[t][which] = "active" THEN [s EXCEPT !.tasks[t][which] = "idle"] ELSE s

subreq_finalize(s, t, in) ==
    LET s0 == Log(s, "cancel", t, Len(s.tasks[t].pending), in)
        s1 == ioreq_killall(uv_timer_stop(uv_timer_stop(s0, t, "retry"), t, "timeout"), t)
        s2 == [s1 EXCEPT !.tasks[t].dgrams = 0]
        k  == subreq_key(s2, t)
    IN  IF ~s2.tasks[t].leading
        THEN {s2}
        ELSE LET s3 == IF s2.outstanding[k] # t THEN Err(s2, "assert_finalize_map") ELSE s2
                 s4 == Log([s3 EXCEPT !.outstanding[k] = NoTask], "unlead", t, k, in)
             IN  WakeLoop(s4, t, in, Len(s4.tasks[t].waiting))

RECURSIVE produce_loop(_, _, _, _)
\* A faulty produce loop: the limit is compared before the increment
\* (iter_count++ > KR_ITER_LIMIT).
produce_loop_postinc(s, t, r, o) ==
    LET state == IF r > 1 THEN "PRODUCE" ELSE o.state
        s1 == IF r > 1 THEN s
              ELSE [s EXCEPT !.tasks[t].addrlist = o.addr, !.tasks[t].key = o.key,
                             !.tasks[t].qry = IF o.addr = NullAddr THEN @ ELSE NewQry(t),
                             !.tasks[t].pktbuf = IF o.addr = NullAddr THEN @ ELSE <<o.key>>]
        s2 == [s1 EXCEPT !.tasks[t].nproduce = @ + 1,
                         !.tasks[t].iter_count = (@ + 1) % U16]
    IN  IF s1.tasks[t].iter_count > KR_ITER_LIMIT
        THEN [s |-> s2, state |-> "LIMIT", sock |-> "NONE"]
        ELSE IF state = "PRODUCE"
             THEN produce_loop(s2, t, r - 1, o)
             ELSE [s |-> s2, state |-> state, sock |-> o.sock]

\* while (state == PRODUCE) { state = produce(); if (++iter_count > LIMIT) ... }
\* r: calls left until produce returns o.
produce_loop(s, t, r, o) ==
    LET state == IF r > 1 THEN "PRODUCE" ELSE o.state
        s1 == IF r > 1 THEN s
              ELSE [s EXCEPT !.tasks[t].addrlist = o.addr, !.tasks[t].key = o.key,
                             !.tasks[t].qry = IF o.addr = NullAddr THEN @ ELSE NewQry(t),
                             !.tasks[t].pktbuf = IF o.addr = NullAddr THEN @ ELSE <<o.key>>]
        s2 == [s1 EXCEPT !.tasks[t].nproduce = @ + 1,
                         !.tasks[t].iter_count = (@ + 1) % U16]
    IN  IF s2.tasks[t].iter_count > KR_ITER_LIMIT
        THEN [s |-> s2, state |-> "LIMIT", sock |-> "NONE"]
        ELSE IF state = "PRODUCE"
             THEN produce_loop(s2, t, r - 1, o)
             ELSE [s |-> s2, state |-> state, sock |-> o.sock]

Min(a, b) == IF a < b THEN a ELSE b

\* A faulty end of qr_task_step: the timeout timer is not started.
StartTimeout_unarmed(s, t, in) == {Ret(s, 0)}

StartTimeout(s, t, in) ==
    UNION {IF ok
           THEN {Ret([s EXCEPT !.tasks[t].timeout = "active"], 0)}
           ELSE UNION {Finalize(s1, t, "FAIL") : s1 \in subreq_finalize(s, t, in)}
           : ok \in TimerStartResults(s)}

Transmit(s, t, in, d) ==
    UNION {LET r == retransmit(s, t, ok) IN
           IF r.ok
           THEN StartTimeout(subreq_lead([r.s EXCEPT !.tasks[t].retry = "active"], t), t, in)
           ELSE qr_task_step(r.s, t, NullIn, d + 1)
           : ok \in StartResults(s, d)}

\* A faulty datagram path: a task enqueued on a leader transmits all the same.
UdpPath_through(s, t, in, d) ==
    IF s.outstanding[subreq_key(s, t)] # NoTask
    THEN UNION {Transmit(subreq_enqueue(s, t, rok).s, t, in, d) : rok \in ReserveResults(s)}
    ELSE Transmit(s, t, in, d)

UdpPath(s, t, in, d) ==
    IF s.outstanding[subreq_key(s, t)] # NoTask
    THEN UNION {LET e == subreq_enqueue(s, t, rok) IN
                IF e.ok THEN {Ret(e.s, 0)} ELSE Transmit(s, t, in, d)
                : rok \in ReserveResults(s)}
    ELSE Transmit(s, t, in, d)

TcpPath(s, t, in, d) ==
    UNION {IF ok
           THEN StartTimeout(qr_task_ref(
                    [s EXCEPT !.tasks[t].pending = Append(@, Handle("tcp", "conn", 0))], t), t, in)
           ELSE qr_task_step(Log([s EXCEPT !.tasks[t].pending =
                                      Append(@, Handle("tcp", "idle", 0))],
                                 "ioerr", t, 0, NullIn),
                             t, NullIn, d + 1)
           : ok \in StartResults(s, d)}

\* A faulty end of the produce loop: at the limit the task is finalized
\* as done.
AfterProduce_done(s, t, in, d, state, sock) ==
    IF state \in {"LIMIT", "DONE"}
    THEN Finalize(s, t, "DONE")
    ELSE IF state = "FAIL"
    THEN Finalize(s, t, state)
    ELSE IF s.tasks[t].addrlist = NullAddr \/ sock = "NONE"
    THEN qr_task_step(s, t, NullIn, d + 1)
    ELSE LET s1 == [s EXCEPT !.tasks[t].addrlist_count =
                                 Min(s.tasks[t].addrlist, KR_NSREP_MAXADDR)]
         IN  IF sock = "DGRAM" THEN UdpPath(s1, t, in, d) ELSE TcpPath(s1, t, in, d)

AfterProduce(s, t, in, d, state, sock) ==
    IF state = "LIMIT"
    THEN Finalize(s, t, "FAIL")
    ELSE IF state \in {"DONE", "FAIL"}
    THEN Finalize(s, t, state)
    ELSE IF s.tasks[t].addrlist = NullAddr \/ sock = "NONE"
    THEN qr_task_step(s, t, NullIn, d + 1)
    ELSE LET s1 == [s EXCEPT !.tasks[t].addrlist_count =
                                 Min(s.tasks[t].addrlist, KR_NSREP_MAXADDR)]
         IN  IF sock = "DGRAM" THEN UdpPath(s1, t, in, d) ELSE TcpPath(s1, t, in, d)

StepBody(s, t, in, d) ==
    LET s1 == Log([s EXCEPT !.tasks[t].addrlist = NullAddr,
                            !.tasks[t].addrlist_count = 0,
                            !.tasks[t].addrlist_turn = 0], "consume", t,
                  s.tasks[t].iter_count, in)
    IN  UNION {IF c \in {"DONE", "FAIL"}
               THEN Finalize(s1, t, c)
               ELSE IF c = "NOOP"
               THEN qr_task_step(s1, t, NullIn, d + 1)
               ELSE UNION {LET p == produce_loop(s1, t, r, o)
                           IN  AfterProduce(p.s, t, in, d, p.state, p.sock)
                           : r \in ProduceRuns(s1), o \in ProduceFinals(s1, t, d)}
               : c \in ConsumeResults(s1, d)}

\* A faulty qr_task_step: the finished flag is not looked at.
qr_task_step_unguarded(s, t, in, d) ==
    UNION {StepBody(s1, t, in, d) :
               s1 \in subreq_finalize(Log(s, "step", t, d, in), t, in)}

qr_task_step(s, t, in, d) ==
    IF s.tasks[t].finished
    THEN {Ret(Log(s, "stale", t, d, in), ESTALE)}
    ELSE UNION {StepBody(s1, t, in, d) :
                    s1 \in subreq_finalize(Log(s, "step", t, d, in), t, in)}

(* ------------------------ TCP message assembly ------------------------ *)
\* wire_read_u16: two bytes in network order.
wire_read_u16(msg) == msg[1] * 256 + msg[2]

\* msg_size: the 16-bit prefix of the chunk, or an error for a chunk too short.
msg_size(msg) == IF Len(msg) < 2 THEN EMSGSIZE ELSE wire_read_u16(msg)

(* --------------------------- worker_exec ------------------------------ *)
qr_task_create(s, t, src, conn) ==
    [s EXCEPT !.tasks[t] = [NoTaskRec EXCEPT !.st = "live", !.src = src, !.conn = conn,
                                             !.refs = 1],
              !.concurrent = @ + 1,
              !.queries = @ + 1]

\* A packet handed to worker_exec, by what knot_pkt_parse makes of it: no
\* packet at all ("null"), a parse error ("err") or a parsed packet ("ok")
\* with rest = size - parsed bytes left over and the QR bit of its header.
Query(parse, rest, qr) == [parse |-> parse, rest |-> rest, qr |-> qr]
NullQuery == Query("null", 0, 0)
GoodQuery == Query("ok", 0, 0)
BadQueries ==
    {NullQuery, Query("err", 0, 0), Query("err", 0, 1), Query("ok", 1, 0),
     Query("ok", 0, 1), Query("ok", 1, 1)}

parse_packet(q) ==
    IF q.parse = "null" THEN EINVAL
    ELSE IF q.parse # "ok" THEN EPROTO
    ELSE IF q.rest > 0 THEN EMSGSIZE
    ELSE 0

\* A faulty worker_exec: what arrives on a master socket is not screened.
worker_exec_unscreened(s, h, slot, src, conn, addr, q) ==
    LET ret == parse_packet(q)
        pkt == IF q.parse = "null" THEN "null" ELSE IF ret # 0 THEN "bad" ELSE "pkt"
        t   == IF h = NoTask THEN slot ELSE h
        s0  == Log(s, "exec", h, q, In(addr, pkt))
        s1  == IF h = NoTask THEN qr_task_create(s0, slot, src, conn) ELSE s0
    IN  qr_task_step(s1, t, In(addr, pkt), 0)

\* worker_exec on handle h: NoTask for a master socket or an accepted client
\* connection (handle->data is NULL), where a query starts the task of slot;
\* else the task of a subrequest handle, which is resumed.
worker_exec(s, h, slot, src, conn, addr, q) ==
    LET ret == parse_packet(q)
        pkt == IF q.parse = "null" THEN "null" ELSE IF ret # 0 THEN "bad" ELSE "pkt"
        s0  == Log(s, "exec", h, q, In(addr, pkt))
    IN  IF h = NoTask
        THEN IF q.parse = "null" \/ ret # 0 \/ q.qr = 1
             THEN {Ret(Log([s0 EXCEPT !.dropped = @ + 1], "drop", NoTask, ret, In(addr, pkt)),
                       EINVAL)}
             ELSE qr_task_step(qr_task_create(s0, slot, src, conn), slot, In(addr, pkt), 0)
        ELSE qr_task_step(s0, h, In(addr, pkt), 0)

\* What knot_pkt_parse may make of a packet a client sent: the clients of
\* this run send malformed packets or not, and drops are counted up to a bound.
Parses(s) == {GoodQuery} \cup (IF s.dropped < MaxDropped THEN s.env.bad \ {NullQuery} ELSE {})

\* What knot_pkt_parse may make of a packet that arrives on the handle of a
\* subrequest: a response, malformed or not.
GoodResponse == Query("ok", 0, 1)
Responses(s) == {GoodResponse} \cup {q \in s.env.bad : q.qr = 1 /\ parse_packet(q) # 0}

\* worker_exec with the packet of the given bytes (all of its size bytes, or
\* those of them that lie in the chunk received); packet "null": no packet.
Dispatch(s, h, slot, conn, pkt, size, bytes) ==
    LET s1 == Log(s, "dispatch", h, [size |-> size, bytes |-> bytes], In("null", pkt))
    IN  IF pkt = "null"
        THEN worker_exec(s1, h, slot, "tcp", conn, "null", NullQuery)
        ELSE IF h = NoTask
        THEN UNION {worker_exec(s1, h, slot, "tcp", conn, "null", q) : q \in Parses(s1)}
        ELSE UNION {worker_exec(s1, h, slot, "tcp", conn, "null", q) : q \in Responses(s1)}

(* ------------------------ worker_process_tcp -------------------------- *)
\* worker_process_tcp: the chunk msg read from the stream of handle h (NoTask:
\* an accepted client connection, whose query starts the task of slot).
worker_process_tcp(s, h, slot, conn, msg) ==
    LET len == Len(msg)
        nbytes == msg_size(msg)
        start_assembly == h # NoTask /\ s.tasks[h].bytes_remaining = 0
        s0 == Log(s, "chunk", h, msg, NullIn)
    IN  IF h = NoTask \/ (start_assembly /\ len >= 2 /\ nbytes = len - 2)
        THEN IF nbytes <= 0
             THEN Dispatch(s0, h, slot, conn, "null", 0, <<>>)
             ELSE Dispatch(s0, h, slot, conn, "pkt", nbytes,
                           SubSeq(msg, 3, Min(len, 2 + nbytes)))
        ELSE IF start_assembly /\ nbytes <= 0
        THEN Dispatch(s0, h, slot, conn, "null", 0, <<>>)
        ELSE LET s1 == IF start_assembly
                       THEN [s0 EXCEPT !.tasks[h].pktbuf = <<>>,
                                       !.tasks[h].bytes_remaining = nbytes]
                       ELSE s0
                 m  == IF start_assembly THEN SubSeq(msg, 3, len) ELSE msg
                 l  == Len(m)
                 T1 == s1.tasks[h]
             IN  IF l > MaxPktSize - Len(T1.pktbuf)
                 THEN Dispatch([s1 EXCEPT !.tasks[h].bytes_remaining = 0],
                               h, slot, conn, "null", 0, <<>>)
                 ELSE LET s2 == [s1 EXCEPT !.tasks[h].pktbuf = @ \o m] IN
                      IF l >= T1.bytes_remaining
                      THEN Dispatch([s2 EXCEPT !.tasks[h].bytes_remaining = 0], h, slot, conn,
                                    "pkt", Len(s2.tasks[h].pktbuf), s2.tasks[h].pktbuf)
                      ELSE {Ret([s2 EXCEPT !.tasks[h].bytes_remaining = @ - l],
                                T1.bytes_remaining - l)}

(* ------------------------------ actions ------------------------------- *)
FreeSlot(t, src) ==
    /\ t <= env.ntasks
    /\ src \in env.srcs
    /\ tasks[t].st = "none"
    /\ \A u \in TaskIds : u < t => tasks[u].st # "none"

\* udp_recv on the master socket: the datagram of a client, or a receive
\* error (no packet).
ClientUdp(t) ==
    /\ FreeSlot(t, "udp")
    /\ \E q \in Parses(St) \cup (IF dropped < MaxDropped THEN env.bad ELSE {}) :
       \E s \in worker_exec(St, NoTask, t, "udp", 0, "addr", q) : Commit(s)

\* tcp_recv on an accepted connection: a chunk of what the client sent; the
\* handle is paused when worker_process_tcp returns 0.
ClientTcp(t, c) ==
    /\ FreeSlot(t, "tcp")
    /\ conns[c].reading
    /\ \E msg \in {m \in env.cchunks : msg_size(m) > 0 \/ dropped < MaxDropped} :
       \E s \in worker_process_tcp(St, NoTask, t, c, msg) :
           Commit(IF s.ret = 0
                  THEN [s EXCEPT !.conns[c] = [ref |-> FALSE, reading |-> FALSE]]
                  ELSE s)

\* worker_resolve: a query of the daemon itself, with no source handle.
WorkerResolve(t) ==
    /\ FreeSlot(t, "none")
    /\ \E s \in qr_task_step(qr_task_create(St, t, "none", 0), t, In("null", "pkt"), 0) :
           Commit(s)

\* on_timeout: the one-shot timer fired.  A leader with handles open
\* marks the first MIN(pending_count, addrlist_count) addresses as timed
\* out, then the task is stepped with no packet.
on_timeout(s, t) ==
    LET T == s.tasks[t]
        n == IF T.leading /\ Len(T.pending) > 0
             THEN Min(Len(T.pending), T.addrlist_count)
             ELSE 0
    IN  qr_task_step([Log(s, "on_timeout", t, n, NullIn) EXCEPT !.timeouts = @ + 1],
                     t, NullIn, 0)

OnTimeout(t) ==
    /\ tasks[t].timeout = "active"
    /\ \E s \in on_timeout(Touch([St EXCEPT !.tasks[t].timeout = "idle"], t), t) :
           Commit(s)

\* on_retransmit: the repeating timer fired.
OnRetransmit(t) ==
    /\ tasks[t].retry = "active"
    /\ tasks[t].dgrams <= env.retries
    /\ \E ok \in SendResults(St) :
           LET r == retransmit(Touch(St, t), t, ok) IN
           Commit(IF r.ok THEN r.s ELSE uv_timer_stop(r.s, t, "retry"))

\* on_send / on_write of a subrequest whose handle is still open.
OnSendSub(t, i) ==
    /\ i \in 1..Len(tasks[t].pending)
    /\ tasks[t].pending[i].ph = "send"
    /\ \E status \in Statuses(St) :
           Commit(qr_task_unref(qr_task_on_send(Touch(St, t), t, i, status), t))

\* on_send / on_write of the answer (the handle is the source handle).
OnSendAnswer(t) ==
    /\ tasks[t].ans_inflight
    /\ \E status \in Statuses(St) :
           Commit(qr_task_unref(
               qr_task_on_send([Touch(St, t) EXCEPT !.tasks[t].ans_inflight = FALSE],
                               t, 0, status), t))

\* on_connect on a stream that is still open.
OnConnect(t, i) ==
    /\ i \in 1..Len(tasks[t].pending)
    /\ tasks[t].pending[i].ph = "conn"
    /\ \/ \E ok \in SendResults(St) :
              Commit(qr_task_unref(qr_task_send_stream(Touch(St, t), t, i, ok), t))
       \/ /\ "status" \in env.faults
          /\ \E s \in qr_task_step(Log([Touch(St, t) EXCEPT !.tasks[t].pending[i].ph = "idle"],
                                       "ioerr", t, tasks[t].pending[i].addr, NullIn),
                                   t, In("addr", "null"), 0) :
                 Commit(qr_task_unref(s, t))

\* on_send / on_write / on_connect of a request whose handle is closing:
\* qr_valid_handle fails, only the reference is given back.
OnDead(t) ==
    /\ tasks[t].dead > 0
    /\ Commit(qr_task_unref([Touch(St, t) EXCEPT !.tasks[t].dead = @ - 1], t))

\* udp_recv on a subrequest handle: a datagram, or a receive error (no
\* packet).
UdpRecv(t, i) ==
    /\ i \in 1..Len(tasks[t].pending)
    /\ tasks[t].pending[i].type = "udp"
    /\ tasks[t].pending[i].ph = "read"
    /\ \E q \in Responses(St) \cup (IF "recv" \in env.faults THEN {NullQuery} ELSE {}) :
       \E s \in worker_exec(Touch(St, t), t, t, "udp", 0, "addr", q) : Commit(s)

\* tcp_recv on a subrequest stream: a chunk of the length-prefixed answer.
TcpRecv(t, i) ==
    /\ i \in 1..Len(tasks[t].pending)
    /\ tasks[t].pending[i].type = "tcp"
    /\ tasks[t].pending[i].ph = "read"
    /\ \E c \in env.chunks :
       \E s \in worker_process_tcp([Touch(St, t) EXCEPT !.tasks[t].rx = Append(@, c)],
                                   t, t, 0, c) : Commit(s)

\* tcp_recv with nread <= 0 on a subrequest stream: the peer closed.
TcpEof(t, i) ==
    /\ i \in 1..Len(tasks[t].pending)
    /\ tasks[t].pending[i].type = "tcp"
    /\ tasks[t].pending[i].ph = "read"
    /\ \E s \in qr_task_step(Touch(St, t), t, NullIn, 0) : Commit(s)

\* retransmit_close: the retry timer closed.
RetransmitClose(t) ==
    /\ tasks[t].retry = "closing"
    /\ Commit(qr_task_unref([Touch(St, t) EXCEPT !.tasks[t].retry = "closed"], t))

\* qr_task_complete: the timeout timer closed.
qr_task_complete(s, t) ==
    LET T  == s.tasks[t]
        s1 == ioreq_killall(s, t)
        s2 == IF Len(T.waiting) # 0 THEN Err(s1, "assert_complete_waiting") ELSE s1
        s3 == IF T.leading THEN Err(s2, "assert_complete_leading") ELSE s2
        s4 == IF T.src = "tcp" /\ ~s3.conns[T.conn].ref
              THEN [s3 EXCEPT !.conns[T.conn] = [ref |-> TRUE, reading |-> TRUE]]
              ELSE s3
        s5 == Log([s4 EXCEPT !.tasks[t].completes = @ + 1], "complete", t, 0, NullIn)
        s6 == qr_task_unref(s5, t)
    IN  [s6 EXCEPT !.concurrent = @ - 1]

QrTaskComplete(t) ==
    /\ tasks[t].timeout = "closing"
    /\ Commit(qr_task_complete([Touch(St, t) EXCEPT !.tasks[t].timeout = "closed"], t))

(* ============================ the record cache ========================= *)
(* lib/cache.c: a typed facade over a transactional key/value store.  The  *)
(* store (the namedb API of libknot) is the environment: a map with        *)
(* read-only snapshots and one read-write transaction whose changes show   *)
(* on commit, any call of which may fail.  Operators take the cache as a   *)
(* record c and return the set of outcomes of the call.                    *)
ENOENT == -2
ENOMEM == -12
U8 == 256
\* A null timestamp pointer.
NoTime == -1

TxnIds == 1..MaxTxns
KR_CACHE_RR == "R"
KR_CACHE_PKT == "P"
\* enum kr_cache_rank.
KR_RANK_BAD == 0
KR_RANK_NONAUTH == 8
KR_RANK_SECURE == 64

\* Names are sequences of labels; knot_dname_lf lowercases a name and
\* reverts the order of its labels.
ToLower(l) == IF l = "CZ" THEN "cz" ELSE IF l = "NIC" THEN "nic" ELSE l
Reverse(q) == [i \in 1..Len(q) |-> q[Len(q) + 1 - i]]
knot_dname_lf(name) == Reverse([i \in 1..Len(name) |-> ToLower(name[i])])

\* cache_key: { tag, name in lookup format, type }.
cache_key(tag, name, type) == <<tag, knot_dname_lf(name), type>>
\* The key of the version tag, "V\x02", and the empty value stored with it.
KEY_VERSION == <<"V", <<>>, 2>>
VersionVal == [timestamp |-> 0, ttl |-> 0, rank |-> 0, count |-> 0, data |-> <<>>]

\* A store: a function from the keys it holds to their values.
EmptyStore == [k \in {} |-> VersionVal]
Put(v, k, e) == [y \in DOMAIN v \cup {k} |-> IF y = k THEN e ELSE v[y]]
Del(v, k) == [y \in DOMAIN v \ {k} |-> v[y]]

\* struct kr_cache_entry with its data (a sequence of rdata, each with its TTL).
Entry(timestamp, ttl, rank, data) ==
    [timestamp |-> timestamp, ttl |-> ttl, rank |-> rank, count |-> Len(data), data |-> data]
Rd(ttl, rdata) == [ttl |-> ttl, rdata |-> rdata]
\* knot_rrset_t: owner, type and the rdataset (rr_count, data).
RRset(owner, type, data) ==
    [owner |-> owner, type |-> type, rrs |-> [rr_count |-> Len(data), data |-> data]]

\* struct kr_cache_txn: st "none" (zeroed, no owner), "open", or "done"
\* (its backend transaction was committed or aborted); view is what the
\* backend transaction sees.  Slot 0 is the local transaction of
\* assert_right_version.
NoTxn == [st |-> "none", rdonly |-> FALSE, view |-> EmptyStore]
NoStats == [hit |-> 0, miss |-> 0, insert |-> 0, delete |-> 0, txn_read |-> 0, txn_write |-> 0]
\* struct kr_cache on a store: open (cache->db is set), the committed store,
\* wlock (the backend has a read-write transaction open), stats.
CacheOn(store) ==
    [open |-> FALSE, db |-> store, wlock |-> FALSE, stats |-> NoStats,
     txns |-> [x \in 0..MaxTxns |-> NoTxn]]

\* What a backend call may fail with in this run.
Fails(op) == IF op \in env.cfaults THEN {EIO} ELSE {}

(* ------------------------- the backend (namedb) ----------------------- *)
db_txn_begin(c, x, rdonly) ==
    {[c |-> c, ret |-> e] : e \in Fails("begin") \cup (IF ~rdonly /\ c.wlock THEN {EIO} ELSE {})}
    \cup (IF rdonly \/ ~c.wlock
          THEN {[c |-> [c EXCEPT !.txns[x] = [st |-> "open", rdonly |-> rdonly, view |-> c.db],
                                 !.wlock = @ \/ ~rdonly],
                 ret |-> 0]}
          ELSE {})

db_txn_commit(c, x) ==
    {[c |-> c, ret |-> e] : e \in Fails("commit")}
    \cup {[c |-> [c EXCEPT !.db = IF c.txns[x].rdonly THEN @ ELSE c.txns[x].view,
                           !.wlock = @ /\ c.txns[x].rdonly,
                           !.txns[x] = [NoTxn EXCEPT !.st = "done"]],
           ret |-> 0]}

db_txn_abort(c, x) ==
    IF c.txns[x].st = "open"
    THEN [c EXCEPT !.wlock = @ /\ c.txns[x].rdonly, !.txns[x] = [NoTxn EXCEPT !.st = "done"]]
    ELSE c

db_find(c, x, key) ==
    {[ret |-> e, val |-> VersionVal] : e \in Fails("find")}
    \cup {IF key \in DOMAIN c.txns[x].view
          THEN [ret |-> 0, val |-> c.txns[x].view[key]]
          ELSE [ret |-> ENOENT, val |-> VersionVal]}

db_count(c, x) == Fails("count") \cup {Cardinality(DOMAIN c.txns[x].view)}

\* A change in a read-only transaction is refused.
db_insert(c, x, key, val) ==
    {[c |-> c, ret |-> e] : e \in Fails("insert")}
    \cup {IF c.txns[x].rdonly
          THEN [c |-> c, ret |-> EIO]
          ELSE [c |-> [c EXCEPT !.txns[x].view = Put(@, key, val)], ret |-> 0]}

db_del(c, x, key) ==
    {[c |-> c, ret |-> e] : e \in Fails("del")}
    \cup {IF c.txns[x].rdonly
          THEN [c |-> c, ret |-> EIO]
          ELSE IF key \in DOMAIN c.txns[x].view
          THEN [c |-> [c EXCEPT !.txns[x].view = Del(@, key)], ret |-> 0]
          ELSE [c |-> c, ret |-> ENOENT]}

db_clear(c, x) ==
    {[c |-> c, ret |-> e] : e \in Fails("clear")}
    \cup {IF c.txns[x].rdonly
          THEN [c |-> c, ret |-> EIO]
          ELSE [c |-> [c EXCEPT !.txns[x].view = EmptyStore], ret |-> 0]}

(* ------------------------------ lib/cache.c --------------------------- *)
\* The outcome of a call: the cache after it, the value returned, berr the
\* error the backend returned in it (0: none), aborts the number of times
\* the call aborted the transaction.
Out(c, ret, berr, aborts) == [c |-> c, ret |-> ret, berr |-> berr, aborts |-> aborts]

txn_is_valid(c, x) == c.txns[x].st # "none"

\* A faulty kr_cache_txn_begin: the transaction is counted before the
\* backend is asked.
kr_cache_txn_begin_counts_first(c, x, flags) ==
    IF ~c.open
    THEN {Out(c, EINVAL, 0, 0)}
    ELSE LET rdonly == "NAMEDB_RDONLY" \in flags
             c1 == [c EXCEPT !.stats.txn_read = IF rdonly THEN @ + 1 ELSE @,
                             !.stats.txn_write = IF rdonly THEN @ ELSE @ + 1]
         IN  {IF b.ret # 0
              THEN Out([b.c EXCEPT !.txns[x] = NoTxn], b.ret, b.ret, 0)
              ELSE Out(b.c, 0, 0, 0)
              : b \in db_txn_begin(c1, x, rdonly)}

kr_cache_txn_begin(c, x, flags) ==
    IF ~c.open
    THEN {Out(c, EINVAL, 0, 0)}
    ELSE LET rdonly == "NAMEDB_RDONLY" \in flags IN
         {IF b.ret # 0
          THEN Out([b.c EXCEPT !.txns[x] = NoTxn], b.ret, b.ret, 0)
          ELSE Out([b.c EXCEPT !.stats.txn_read = IF rdonly THEN @ + 1 ELSE @,
                               !.stats.txn_write = IF rdonly THEN @ ELSE @ + 1],
                   0, 0, 0)
          : b \in db_txn_begin(c, x, rdonly)}

kr_cache_txn_abort(c, x) == IF txn_is_valid(c, x) THEN db_txn_abort(c, x) ELSE c

kr_cache_txn_commit(c, x) ==
    IF ~txn_is_valid(c, x)
    THEN {Out(c, EINVAL, 0, 0)}
    ELSE {IF b.ret # 0
          THEN Out(kr_cache_txn_abort(b.c, x), b.ret, b.ret, 1)
          ELSE Out(b.c, 0, 0, 0)
          : b \in db_txn_commit(c, x)}

\* lookup: the entry found, or NULL whatever the backend's find failed with.
lookup(c, x, tag, name, type) ==
    {[found |-> f.ret = 0, entry |-> f.val, berr |-> f.ret] :
         f \in db_find(c, x, cache_key(tag, name, type))}

\* A faulty check_lifetime: an entry is stale from drift = ttl on.
check_lifetime_strict(found, timestamp) ==
    IF timestamp = NoTime
    THEN [ret |-> 0, timestamp |-> NoTime]
    ELSE IF timestamp <= found.timestamp
    THEN [ret |-> 0, timestamp |-> 0]
    ELSE LET drift == timestamp - found.timestamp IN
         IF drift < found.ttl
         THEN [ret |-> 0, timestamp |-> drift]
         ELSE [ret |-> ESTALE, timestamp |-> timestamp]

\* check_lifetime: the result and what *timestamp holds after the call.
check_lifetime(found, timestamp) ==
    IF timestamp = NoTime
    THEN [ret |-> 0, timestamp |-> NoTime]
    ELSE IF timestamp <= found.timestamp
    THEN [ret |-> 0, timestamp |-> 0]
    ELSE LET drift == timestamp - found.timestamp IN
         IF drift <= found.ttl
         THEN [ret |-> 0, timestamp |-> drift]
         ELSE [ret |-> ESTALE, timestamp |-> timestamp]

\* kr_cache_peek: also the entry (*entry) and the timestamp after the call.
kr_cache_peek(c, x, tag, name, type, timestamp) ==
    IF ~txn_is_valid(c, x)
    THEN {[c |-> c, ret |-> EINVAL, berr |-> 0, aborts |-> 0,
           entry |-> VersionVal, timestamp |-> timestamp]}
    ELSE {IF ~l.found
          THEN [c |-> [c EXCEPT !.stats.miss = @ + 1], ret |-> ENOENT,
                berr |-> l.berr, aborts |-> 0, entry |-> VersionVal, timestamp |-> timestamp]
          ELSE LET r == check_lifetime(l.entry, timestamp) IN
               [c |-> IF r.ret = 0
                      THEN [c EXCEPT !.stats.hit = @ + 1]
                      ELSE [c EXCEPT !.stats.miss = @ + 1],
                ret |-> r.ret, berr |-> 0, aborts |-> 0,
                entry |-> l.entry, timestamp |-> r.timestamp]
          : l \in lookup(c, x, tag, name, type)}

\* A faulty kr_cache_insert: an entry of a higher rank is kept.
kr_cache_insert_ranked(c, x, tag, name, type, header, data) ==
    IF ~txn_is_valid(c, x)
    THEN {Out(c, EINVAL, 0, 0)}
    ELSE LET key == cache_key(tag, name, type)
             c1  == [c EXCEPT !.stats.insert = @ + 1]
         IN  IF key \in DOMAIN c.txns[x].view /\ c.txns[x].view[key].rank > header.rank
             THEN {Out(c1, 0, 0, 0)}
             ELSE {Out(b.c, b.ret, b.ret, 0) :
                       b \in db_insert(c1, x, key, [header EXCEPT !.data = data])}

\* kr_cache_insert: with the LMDB backend the entry is written in place;
\* other backends get a staged copy, whose allocation may fail.
kr_cache_insert(c, x, tag, name, type, header, data) ==
    IF ~txn_is_valid(c, x)
    THEN {Out(c, EINVAL, 0, 0)}
    ELSE LET key == cache_key(tag, name, type)
             c1  == [c EXCEPT !.stats.insert = @ + 1]
         IN  (IF env.api # "lmdb" /\ "malloc" \in env.cfaults
              THEN {Out(c1, ENOMEM, 0, 0)}
              ELSE {})
             \cup {Out(b.c, b.ret, b.ret, 0) :
                       b \in db_insert(c1, x, key, [header EXCEPT !.data = data])}

kr_cache_remove(c, x, tag, name, type) ==
    IF ~txn_is_valid(c, x)
    THEN {Out(c, EINVAL, 0, 0)}
    ELSE {Out(b.c, b.ret, b.ret, 0) :
              b \in db_del([c EXCEPT !.stats.delete = @ + 1], x,
                           cache_key(tag, name, type))}

kr_cache_clear(c, x) ==
    IF ~txn_is_valid(c, x)
    THEN {Out(c, EINVAL, 0, 0)}
    ELSE {Out(b.c, b.ret, b.ret, 0) : b \in db_clear(c, x)}

\* kr_cache_peek_rr: also rr and *rank after the call.
kr_cache_peek_rr(c, x, rr, rank, timestamp) ==
    IF ~txn_is_valid(c, x) \/ timestamp = NoTime
    THEN {[c |-> c, ret |-> EINVAL, berr |-> 0, aborts |-> 0,
           rr |-> rr, rank |-> rank, timestamp |-> timestamp]}
    ELSE {IF p.ret # 0
          THEN [c |-> p.c, ret |-> p.ret, berr |-> p.berr, aborts |-> 0,
                rr |-> rr, rank |-> rank, timestamp |-> p.timestamp]
          ELSE [c |-> p.c, ret |-> 0, berr |-> 0, aborts |-> 0,
                rr |-> [rr EXCEPT !.rrs = [rr_count |-> p.entry.count, data |-> p.entry.data]],
                rank |-> p.entry.rank, timestamp |-> p.timestamp]
          : p \in kr_cache_peek(c, x, KR_CACHE_RR, rr.owner, rr.type, timestamp)}

RECURSIVE max_ttl(_, _, _)
\* The loop of kr_cache_insert_rr over the rdata: the greatest TTL.
max_ttl(rrs, i, ttl) ==
    IF i > rrs.rr_count THEN ttl
    ELSE max_ttl(rrs, i + 1, IF rrs.data[i].ttl > ttl THEN rrs.data[i].ttl ELSE ttl)

\* A faulty kr_cache_insert_rr: the header is stamped with the TTL of the
\* first record.
kr_cache_insert_rr_first_ttl(c, x, rr, rank, timestamp) ==
    IF ~txn_is_valid(c, x)
    THEN {Out(c, EINVAL, 0, 0)}
    ELSE IF rr.rrs.rr_count = 0
    THEN {Out(c, 0, 0, 0)}
    ELSE kr_cache_insert(c, x, KR_CACHE_RR, rr.owner, rr.type,
                         [timestamp |-> timestamp, ttl |-> rr.rrs.data[1].ttl,
                          rank |-> rank % U8, count |-> rr.rrs.rr_count, data |-> <<>>],
                         rr.rrs.data)

kr_cache_insert_rr(c, x, rr, rank, timestamp) ==
    IF ~txn_is_valid(c, x)
    THEN {Out(c, EINVAL, 0, 0)}
    ELSE IF rr.rrs.rr_count = 0
    THEN {Out(c, 0, 0, 0)}
    ELSE kr_cache_insert(c, x, KR_CACHE_RR, rr.owner, rr.type,
                         [timestamp |-> timestamp, ttl |-> max_ttl(rr.rrs, 1, 0),
                          rank |-> rank % U8, count |-> rr.rrs.rr_count, data |-> <<>>],
                         rr.rrs.data)

RECURSIVE copy_valid(_, _, _, _)
\* The first loop of kr_cache_materialize: the records kept.
copy_valid(src, i, drift, dst) ==
    IF i > src.rrs.rr_count THEN dst
    ELSE copy_valid(src, i + 1, drift,
                    IF src.rrs.data[i].ttl >= drift THEN Append(dst, src.rrs.data[i]) ELSE dst)

\* A faulty kr_cache_materialize: every record is copied.  (The TTLs are
\* 32 bits wide, beyond the integers of the checker: a difference below
\* zero stands for the value 2^32 above it, to which the subtraction wraps.)
kr_cache_materialize_all(src, drift) ==
    {[ret |-> 0,
      dst |-> RRset(src.owner, src.type,
                    [i \in 1..Len(src.rrs.data) |->
                        [src.rrs.data[i] EXCEPT !.ttl = @ - drift]])]}

\* kr_cache_materialize: the result and dst; an allocation may fail.
kr_cache_materialize(src, drift) ==
    (IF "malloc" \in env.cfaults
     THEN {[ret |-> ENOMEM, dst |-> RRset(src.owner, src.type, <<>>)]}
     ELSE {})
    \cup {LET kept == copy_valid(src, 1, drift, <<>>) IN
          [ret |-> 0,
           dst |-> RRset(src.owner, src.type,
                         [i \in 1..Len(kept) |->
                             [kept[i] EXCEPT !.ttl = @ - drift]])]}

\* The part of assert_right_version after the version key was not found;
\* n is what count returned.  failed: some backend call failed in it.
version_stamp(c, n) ==
    LET stamp(c1, failed) ==
            UNION {{[c |-> m.c, failed |-> failed \/ i.ret # 0 \/ m.ret # 0] :
                        m \in kr_cache_txn_commit(i.c, 0)}
                   : i \in db_insert(c1, 0, KEY_VERSION, VersionVal)}
    IN  IF n > 0
        THEN UNION {UNION {UNION {IF b.ret = 0
                                  THEN stamp(b.c, cl.ret # 0 \/ m.ret # 0)
                                  ELSE {[c |-> b.c, failed |-> TRUE]}
                                  : b \in kr_cache_txn_begin(m.c, 0, {})}
                           : m \in kr_cache_txn_commit(cl.c, 0)}
                    : cl \in kr_cache_clear(c, 0)}
        ELSE IF n = 0
        THEN stamp(c, FALSE)
        ELSE {[c |-> c, failed |-> TRUE]}

\* A faulty assert_right_version: the store is not purged.
assert_right_version_keeps(c) ==
    UNION {IF b.ret # 0
           THEN {[c |-> b.c, failed |-> TRUE, steps |-> TRUE]}
           ELSE UNION {IF f.ret = 0
                       THEN {[c |-> kr_cache_txn_abort(b.c, 0), failed |-> FALSE, steps |-> FALSE]}
                       ELSE {[c |-> r.c, failed |-> r.failed \/ f.ret # ENOENT, steps |-> r.failed] :
                                 r \in version_stamp(b.c, 0)}
                       : f \in db_find(b.c, 0, KEY_VERSION)}
           : b \in kr_cache_txn_begin(c, 0, {})}

assert_right_version(c) ==
    UNION {IF b.ret # 0
           THEN {[c |-> b.c, failed |-> TRUE, steps |-> TRUE]}
           ELSE UNION {IF f.ret = 0
                       THEN {[c |-> kr_cache_txn_abort(b.c, 0), failed |-> FALSE, steps |-> FALSE]}
                       ELSE UNION {{[c |-> r.c, failed |-> r.failed \/ f.ret # ENOENT,
                                     steps |-> r.failed] :
                                        r \in version_stamp(b.c, n)}
                                   : n \in db_count(b.c, 0)}
                       : f \in db_find(b.c, 0, KEY_VERSION)}
           : b \in kr_cache_txn_begin(c, 0, {})}

\* kr_cache_open: init of the backend may fail; failed as above, steps: a
\* call of the version check other than the look-up of the key failed.
kr_cache_open(c) ==
    {[c |-> c, ret |-> e, failed |-> TRUE, steps |-> FALSE] : e \in Fails("init")}
    \cup {[c |-> r.c, ret |-> 0, failed |-> r.failed, steps |-> r.steps] :
              r \in assert_right_version([c EXCEPT !.open = TRUE, !.stats = NoStats])}

(* ========================== the resolution plan ======================== *)
(* lib/rplan.c: the queries of one request, by the order of their          *)
(* creation, and the two lists that hold them.  A query is named by its    *)
(* position in queries; NoQuery is a null pointer.                         *)
NoQuery == 0
\* A null name pointer (the root name is not among the names of the runs).
NullName == <<>>
KNOT_CLASS_IN == 1
KNOT_RRTYPE_A == 1
KNOT_RRTYPE_AAAA == 28

\* kr_rplan_init: no query, both lists empty; last is what the last call
\* was given and gave back.
NoLast ==
    [op |-> "none", q |-> NoQuery, parent |-> NoQuery, name |-> NullName,
     cls |-> 0, type |-> 0, ret |-> 0, sat |-> FALSE, unspec |-> FALSE]
NoPlan == [queries |-> <<>>, pending |-> <<>>, resolved |-> <<>>, last |-> NoLast]

\* knot_dname_to_lower.
knot_dname_to_lower(name) == [i \in 1..Len(name) |-> ToLower(name[i])]
\* knot_dname_is_equal: the names are the same bytes.
knot_dname_is_equal(a, b) == a = b

\* query_create: NULL for a null name or a failed allocation, else a zeroed
\* query with the name copied and lowercased.
query_create(name) ==
    IF name = NullName
    THEN {[null |-> TRUE, sname |-> NullName]}
    ELSE (IF env.palloc THEN {[null |-> TRUE, sname |-> NullName]} ELSE {})
         \cup {[null |-> FALSE, sname |-> knot_dname_to_lower(name)]}

\* List operations of libknot's list.h.
Without(l, q) == SelectSeq(l, LAMBDA y : y # q)
rem_node(p, q) == [p EXCEPT !.pending = Without(@, q), !.resolved = Without(@, q)]

\* kr_rplan_push: the plan after the call and the query returned.
kr_rplan_push(p, parent, name, cls, type) ==
    IF name = NullName
    THEN {[p |-> p, ret |-> NoQuery]}
    ELSE {IF c.null
          THEN [p |-> p, ret |-> NoQuery]
          ELSE LET qry == Len(p.queries) + 1 IN
               [p |-> [p EXCEPT !.queries = Append(@, [sname |-> c.sname, sclass |-> cls,
                                                        stype |-> type, parent |-> parent,
                                                        flags |-> {}]),
                                !.pending = Append(@, qry)],
                ret |-> qry]
          : c \in query_create(name)}

\* A faulty kr_rplan_pop: the query is not unlinked from the list it is in.
kr_rplan_pop_linked(p, qry) ==
    IF qry = NoQuery
    THEN [p |-> p, ret |-> EINVAL]
    ELSE [p |-> [p EXCEPT !.resolved = Append(@, qry)], ret |-> 0]

kr_rplan_pop(p, qry) ==
    IF qry = NoQuery
    THEN [p |-> p, ret |-> EINVAL]
    ELSE [p |-> [rem_node(p, qry) EXCEPT !.resolved = Append(@, qry)], ret |-> 0]

QUERY_PROVIDES(q, name, cls, type) ==
    q.sclass = cls /\ q.stype = type /\ knot_dname_is_equal(q.sname, name)

RECURSIVE kr_rplan_satisfies(_, _, _, _, _)
\* A faulty kr_rplan_satisfies: the walk starts at the parent.
kr_rplan_satisfies_above(p, closure, name, cls, type) ==
    IF closure = NoQuery THEN FALSE
    ELSE kr_rplan_satisfies(p, p.queries[closure].parent, name, cls, type)

kr_rplan_satisfies(p, closure, name, cls, type) ==
    IF closure = NoQuery THEN FALSE
    ELSE IF QUERY_PROVIDES(p.queries[closure], name, cls, type) THEN TRUE
    ELSE kr_rplan_satisfies(p, p.queries[closure].parent, name, cls, type)

(* --------------------------- lib/resolve.c ---------------------------- *)
\* kr_rplan_current: the tail of the pending list.
kr_rplan_current(p) == IF p.pending = <<>> THEN NoQuery ELSE p.pending[Len(p.pending)]

\* A faulty ns_resolve_addr: the AWAIT_ADDR flag is not looked at.
ns_resolve_addr_again(p, cur, ns) ==
    IF \/ kr_rplan_satisfies(p, cur, ns, KNOT_CLASS_IN, KNOT_RRTYPE_A)
       \/ kr_rplan_satisfies(p, cur, ns, KNOT_CLASS_IN, KNOT_RRTYPE_AAAA)
    THEN {kr_rplan_pop(p, cur).p}
    ELSE {[o2.p EXCEPT !.queries[cur].flags = @ \cup {"AWAIT_ADDR"}]
          : o2 \in UNION {kr_rplan_push(o1.p, cur, ns, KNOT_CLASS_IN, KNOT_RRTYPE_A)
                          : o1 \in kr_rplan_push(p, cur, ns, KNOT_CLASS_IN,
                                                 KNOT_RRTYPE_AAAA)}}

\* ns_resolve_addr: with the address already asked for on the chain of the
\* query, or the query already waiting for it, the query is popped; else
\* AAAA and A are pushed, whatever the pushes return, and the query flagged.
ns_resolve_addr(p, cur, ns) ==
    IF \/ kr_rplan_satisfies(p, cur, ns, KNOT_CLASS_IN, KNOT_RRTYPE_A)
       \/ kr_rplan_satisfies(p, cur, ns, KNOT_CLASS_IN, KNOT_RRTYPE_AAAA)
       \/ "AWAIT_ADDR" \in p.queries[cur].flags
    THEN {kr_rplan_pop(p, cur).p}
    ELSE {[o2.p EXCEPT !.queries[cur].flags = @ \cup {"AWAIT_ADDR"}]
          : o2 \in UNION {kr_rplan_push(o1.p, cur, ns, KNOT_CLASS_IN, KNOT_RRTYPE_A)
                          : o1 \in kr_rplan_push(p, cur, ns, KNOT_CLASS_IN,
                                                 KNOT_RRTYPE_AAAA)}}

\* What kr_nsrep_elect may leave in cur->ns: no valid nameserver, or one of
\* some name with or without an address.
Elects ==
    {[valid |-> FALSE, name |-> NullName, addr |-> FALSE]}
    \cup {[valid |-> TRUE, name |-> n, addr |-> a] : n \in env.names, a \in BOOLEAN}

\* iterate: the plan after one round on the current query, given the
\* election and whether the layers flagged the query resolved.
iterate(p, e, resolved) ==
    LET cur == kr_rplan_current(p) IN
    IF ~e.valid THEN {kr_rplan_pop(p, cur).p}
    ELSE IF ~e.addr THEN ns_resolve_addr(p, cur, e.name)
    ELSE IF resolved THEN {kr_rplan_pop(p, cur).p}
    ELSE {p}


(* ========================= the worker's freelists ====================== *)
\* Arenas and I/O request objects by address; NULL is no object.
NULL == 0
MaxPools == MP_FREELIST_SIZE + 2
MaxReqs == 4 * MP_FREELIST_SIZE + 1
PoolIds == 1..MaxPools
ReqIds == 1..MaxReqs

\* worker->pools and worker->ioreqs (the last entry is the tail), what
\* became of every object ("none": never allocated, "used": held by a task
\* or a request in flight, "listed": given to a freelist, "freed", "lost":
\* neither stored nor freed) and the last call.
NoCall == [op |-> "none", obj |-> NULL, len |-> 0]
NoHeap ==
    [pools |-> <<>>, ioreqs |-> <<>>,
     mp |-> [m \in PoolIds |-> "none"], req |-> [r \in ReqIds |-> "none"],
     last |-> NoCall]

Front(q) == SubSeq(q, 1, Len(q) - 1)
\* The address the allocator hands out: one of no live object (the least,
\* addresses being alike), if there is one left.
Fresh(status) ==
    LET free == {o \in DOMAIN status : status[o] \in {"none", "freed"}}
    IN  {o \in free : \A u \in free : o <= u}
\* array_push stores the element unless the array has to grow and cannot.
PushResults == IF env.pushfail THEN {TRUE, FALSE} ELSE {TRUE}

ioreq_take(h) ==
    IF Len(h.ioreqs) > 0
    THEN LET req == h.ioreqs[Len(h.ioreqs)]
         IN  {[h |-> [h EXCEPT !.ioreqs = Front(@),
                               !.req = IF req = NULL THEN @ ELSE [@ EXCEPT ![req] = "used"]],
               ret |-> req]}
    ELSE {[h |-> [h EXCEPT !.req[r] = "used"], ret |-> r] : r \in Fresh(h.req)}
         \cup (IF env.mallocfail THEN {[h |-> h, ret |-> NULL]} ELSE {})

\* A faulty ioreq_release: the freelist is never full.
ioreq_release_unbounded(h, req) ==
    {[h EXCEPT !.ioreqs = Append(@, req), !.req[req] = "listed"]}

ioreq_release(h, req) ==
    IF req = NULL \/ Len(h.ioreqs) < 4 * MP_FREELIST_SIZE
    THEN {IF ok
          THEN [h EXCEPT !.ioreqs = Append(@, req),
                         !.req = IF req = NULL THEN @ ELSE [@ EXCEPT ![req] = "listed"]]
          ELSE [h EXCEPT !.req = IF req = NULL THEN @ ELSE [@ EXCEPT ![req] = "lost"]]
          : ok \in PushResults}
    ELSE {[h EXCEPT !.req[req] = "freed"]}

pool_take(h) ==
    IF Len(h.pools) > 0
    THEN LET mp == h.pools[Len(h.pools)]
         IN  {[h |-> [h EXCEPT !.pools = Front(@), !.mp[mp] = "used"], ret |-> mp]}
    ELSE {[h |-> [h EXCEPT !.mp[m] = "used"], ret |-> m] : m \in Fresh(h.mp)}

\* A faulty pool_release: the freelist is never full.
pool_release_unbounded(h, mp) ==
    {[h EXCEPT !.pools = Append(@, mp), !.mp[mp] = "listed"]}

pool_release(h, mp) ==
    IF Len(h.pools) < MP_FREELIST_SIZE
    THEN {IF ok
          THEN [h EXCEPT !.pools = Append(@, mp), !.mp[mp] = "listed"]
          ELSE [h EXCEPT !.mp[mp] = "lost"]
          : ok \in PushResults}
    ELSE {[h EXCEPT !.mp[mp] = "freed"]}

\* The arena part of qr_task_create: the arena is deleted when the task or
\* its packets cannot be allocated from it.
task_pool(h) ==
    UNION {{o} \cup (IF env.mallocfail
                     THEN {[h |-> [o.h EXCEPT !.mp[o.ret] = "freed"], ret |-> NULL]}
                     ELSE {})
           : o \in pool_take(h)}

(* ------------------------- daemon/network.c ---------------------------- *)
\* The kinds of socket an endpoint owns (its flags); NET_DOWN: none.
NET_DOWN == {}
NET_UDP == {"udp"}
NET_TCP == {"tcp"}

\* Addresses are the strings the caller passes, character by character.
Loopback4 == <<"1", "2", "7", ".", "0", ".", "0", ".", "1">>
Loopback6 == <<":", ":", "1">>
Garbage4 == <<"l", "o">>
Garbage6 == <<":", "l", "o">>
strchr(addr, c) == \E i \in 1..Len(addr) : addr[i] = c
uv_ip4_addr(addr) == IF addr = Loopback4 THEN 0 ELSE EINVAL
uv_ip6_addr(addr) == IF addr = Loopback6 THEN 0 ELSE EINVAL

NoEndpoints == [a \in {} |-> <<>>]
NoNetCall == [op |-> "none", addr |-> <<>>, port |-> 0, flags |-> NET_DOWN, ret |-> 0,
              before |-> NoEndpoints]
\* net->endpoints maps an address to its array of endpoints; sockets counts
\* the sockets bound and not yet unbound.
NoNet == [endpoints |-> NoEndpoints, sockets |-> 0, last |-> NoNetCall]

\* close_endpoint unbinds the sockets the endpoint's flags name and frees it.
close_endpoint(n, ep) == [n EXCEPT !.sockets = @ - Cardinality(ep.flags)]

\* array_push of insert_endpoint: the endpoint is appended, or the array
\* cannot grow and is left as it was.
ep_push(n, addr, ep) ==
    {[net |-> [n EXCEPT !.endpoints[addr] = Append(@, ep)], ret |-> 0]}
    \cup (IF env.pushfail THEN {[net |-> n, ret |-> -1]} ELSE {})

\* insert_endpoint: the array of the address is fetched, or allocated,
\* stored in the map and initialized empty; then the endpoint is pushed.
insert_endpoint(n, addr, ep) ==
    IF addr \in DOMAIN n.endpoints THEN ep_push(n, addr, ep)
    ELSE (IF env.mallocfail THEN {[net |-> n, ret |-> ENOMEM]} ELSE {})
         \cup ep_push([n EXCEPT !.endpoints = Put(@, addr, <<>>)], addr, ep)

\* One protocol of open_endpoint: if asked for and nothing failed before,
\* the socket is bound and flagged, or the bind fails.
ep_bind(o, kind, flags) ==
    IF o.ret # 0 \/ kind \notin flags THEN {o}
    ELSE {[net |-> [o.net EXCEPT !.sockets = @ + 1],
           ep |-> [o.ep EXCEPT !.flags = @ \cup {kind}], ret |-> 0]}
         \cup (IF env.bindfail THEN {[o EXCEPT !.ret = EIO]} ELSE {})

\* open_endpoint: UDP first, then TCP.
open_endpoint(n, ep, flags) ==
    UNION {ep_bind(o, "tcp", flags)
           : o \in ep_bind([net |-> n, ep |-> ep, ret |-> 0], "udp", flags)}

\* network_listen: the arguments are checked, the address parsed as v6 if
\* it holds a colon and as v4 otherwise, the endpoint opened and inserted;
\* on any failure the endpoint is closed.
network_listen(n, addr, port, flags) ==
    IF port = 0 THEN {[net |-> n, ret |-> EINVAL]}
    ELSE LET ret == IF strchr(addr, ":") THEN uv_ip6_addr(addr) ELSE uv_ip4_addr(addr)
         IN  IF ret # 0 THEN {[net |-> n, ret |-> ret]}
             ELSE UNION {IF o.ret = 0
                         THEN {IF i.ret # 0
                               THEN [net |-> close_endpoint(i.net, o.ep), ret |-> i.ret]
                               ELSE i
                               : i \in insert_endpoint(o.net, addr, o.ep)}
                         ELSE {[net |-> close_endpoint(o.net, o.ep), ret |-> o.ret]}
                         : o \in open_endpoint(n, [port |-> port, flags |-> NET_DOWN],
                                               flags)}

\* array_del of network_close: the last element takes the place of the
\* deleted one.
ep_del(arr, i) == [j \in 1..(Len(arr) - 1) |-> IF j = i THEN arr[Len(arr)] ELSE arr[j]]

\* network_close: the array is walked from its end; the first endpoint met
\* with the port is closed and deleted and the walk stops; an array left
\* empty is freed and its key deleted.
network_close(n, addr, port) ==
    IF addr \notin DOMAIN n.endpoints THEN [net |-> n, ret |-> ENOENT]
    ELSE LET arr == n.endpoints[addr]
             hits == {i \in 1..Len(arr) : arr[i].port = port}
             i == CHOOSE x \in hits : \A y \in hits : y <= x
             n1 == IF hits = {} THEN n
                   ELSE [close_endpoint(n, arr[i]) EXCEPT !.endpoints[addr] = ep_del(arr, i)]
             n2 == IF Len(n1.endpoints[addr]) = 0
                   THEN [n1 EXCEPT !.endpoints = Del(@, addr)]
                   ELSE n1
         IN  [net |-> n2, ret |-> 0]

(* --------------------------- the cache's callers ---------------------- *)
NoRR == RRset(<<>>, 0, <<>>)
\* What the last call of the cache API was given and what it gave back.
NoRes ==
    [op |-> "none", x |-> 0, tag |-> "", name |-> <<>>, type |-> 0, time |-> 0,
     rank |-> 0, rr |-> NoRR, header |-> VersionVal,
     ret |-> 0, berr |-> 0, aborts |-> 0, failed |-> FALSE, steps |-> FALSE,
     entry |-> VersionVal, otime |-> 0, orank |-> 0, orr |-> NoRR]

Idle ==
    /\ tasks = [t \in TaskIds |-> NoTaskRec]
    /\ outstanding = [k \in Keys |-> NoTask]
    /\ conns = [c \in ConnIds |-> [ref |-> TRUE, reading |-> TRUE]]
    /\ concurrent = 0
    /\ queries = 0
    /\ dropped = 0
    /\ timeouts = 0
    /\ errs = {}
    /\ log = <<>>

CacheCommit(c, r) ==
    /\ cache' = c
    /\ res' = r
    /\ UNCHANGED <<tasks, outstanding, conns, concurrent, queries, dropped, timeouts, errs, log,
                   rplan, heap, net, env>>

Begun == cache.stats.txn_read + cache.stats.txn_write
Usable(x) == cache.txns[x].st \in {"open", "none"}

CacheOpen ==
    /\ ~cache.open
    /\ \E o \in kr_cache_open(cache) :
           CacheCommit(o.c, [NoRes EXCEPT !.op = "open", !.ret = o.ret, !.failed = o.failed,
                                         !.steps = o.steps])

TxnBegin(x, flags) ==
    /\ cache.txns[x].st # "open"
    /\ Begun < env.begins
    /\ \E o \in kr_cache_txn_begin(cache, x, flags) :
           CacheCommit(o.c, [NoRes EXCEPT !.op = "begin", !.x = x, !.ret = o.ret,
                                          !.berr = o.berr, !.aborts = o.aborts,
                                          !.tag = IF "NAMEDB_RDONLY" \in flags THEN "ro" ELSE "rw"])

TxnCommit(x) ==
    /\ Usable(x)
    /\ \E o \in kr_cache_txn_commit(cache, x) :
           CacheCommit(o.c, [NoRes EXCEPT !.op = "commit", !.x = x, !.ret = o.ret,
                                          !.berr = o.berr, !.aborts = o.aborts])

TxnAbort(x) ==
    /\ Usable(x)
    /\ CacheCommit(kr_cache_txn_abort(cache, x), [NoRes EXCEPT !.op = "abort", !.x = x])

Peek(x, tag, name, type, timestamp) ==
    /\ Usable(x)
    /\ cache.stats.hit + cache.stats.miss < env.peeks
    /\ \E o \in kr_cache_peek(cache, x, tag, name, type, timestamp) :
           CacheCommit(o.c, [NoRes EXCEPT !.op = "peek", !.x = x, !.tag = tag, !.name = name,
                                          !.type = type, !.time = timestamp, !.ret = o.ret,
                                          !.berr = o.berr, !.aborts = o.aborts,
                                          !.entry = o.entry, !.otime = o.timestamp])

Insert(x, tag, name, type, header, data) ==
    /\ Usable(x)
    /\ cache.stats.insert < env.inserts
    /\ \E o \in kr_cache_insert(cache, x, tag, name, type, header, data) :
           CacheCommit(o.c, [NoRes EXCEPT !.op = "insert", !.x = x, !.tag = tag, !.name = name,
                                          !.type = type, !.header = [header EXCEPT !.data = data],
                                          !.ret = o.ret, !.berr = o.berr, !.aborts = o.aborts])

Remove(x, tag, name, type) ==
    /\ Usable(x)
    /\ cache.stats.delete < env.deletes
    /\ \E o \in kr_cache_remove(cache, x, tag, name, type) :
           CacheCommit(o.c, [NoRes EXCEPT !.op = "remove", !.x = x, !.tag = tag, !.name = name,
                                          !.type = type, !.ret = o.ret, !.berr = o.berr,
                                          !.aborts = o.aborts])

Clear(x) ==
    /\ Usable(x)
    /\ env.deletes > 0
    /\ \E o \in kr_cache_clear(cache, x) :
           CacheCommit(o.c, [NoRes EXCEPT !.op = "clear", !.x = x, !.ret = o.ret,
                                          !.berr = o.berr, !.aborts = o.aborts])

PeekRr(x, rr, timestamp) ==
    /\ Usable(x)
    /\ cache.stats.hit + cache.stats.miss < env.peeks
    /\ \E o \in kr_cache_peek_rr(cache, x, rr, 0, timestamp) :
           CacheCommit(o.c, [NoRes EXCEPT !.op = "peek_rr", !.x = x, !.rr = rr,
                                          !.time = timestamp, !.ret = o.ret, !.berr = o.berr,
                                          !.aborts = o.aborts, !.orr = o.rr, !.orank = o.rank,
                                          !.otime = o.timestamp])

InsertRr(x, rr, rank, timestamp) ==
    /\ Usable(x)
    /\ cache.stats.insert < env.inserts
    /\ \E o \in kr_cache_insert_rr(cache, x, rr, rank, timestamp) :
           CacheCommit(o.c, [NoRes EXCEPT !.op = "insert_rr", !.x = x, !.rr = rr, !.rank = rank,
                                          !.time = timestamp, !.ret = o.ret, !.berr = o.berr,
                                          !.aborts = o.aborts])

\* A caller that materializes the record set a peek gave it, with the drift
\* the peek left in the timestamp.
Materialize ==
    /\ res.op = "peek_rr"
    /\ res.ret = 0
    /\ \E o \in kr_cache_materialize(res.orr, res.otime) :
           CacheCommit(cache, [NoRes EXCEPT !.op = "materialize", !.rr = res.orr,
                                            !.time = res.otime, !.ret = o.ret, !.orr = o.dst])

\* The runs of the cache.  "open": a store of any content is opened.
\* "ttl": record sets of any TTLs are stored and read back at any time.
\* "rank": entries of any rank are stored over each other.  "txn":
\* transactions of both kinds on two handles.  "fault": any backend call
\* may fail.
K1 == cache_key(KR_CACHE_RR, <<"cz">>, 1)
K2 == cache_key(KR_CACHE_PKT, <<"nic", "cz">>, 1)
E1 == Entry(1, 1, KR_RANK_NONAUTH, <<Rd(1, "a")>>)
Populated(ks) == [k \in ks |-> IF k = KEY_VERSION THEN VersionVal ELSE E1]
NoCacheEnv ==
    [ntasks |-> 0, cfaults |-> {}, api |-> "lmdb", stores |-> {Populated({KEY_VERSION})},
     slots |-> {1}, begins |-> 0, peeks |-> 0, inserts |-> 0, deletes |-> 0,
     tags |-> {KR_CACHE_RR}, names |-> {<<"cz">>}, times |-> {}, headers |-> {},
     rrsets |-> {}, ranks |-> {}]
CEnvOpen ==
    [NoCacheEnv EXCEPT
        !.stores = {Populated(ks) : ks \in SUBSET {KEY_VERSION, K1, K2}},
        !.begins = 3, !.peeks = 1, !.times = {1}]
CEnvOpenFaulty ==
    [CEnvOpen EXCEPT
        !.stores = {Populated(ks) : ks \in {{}, {K1}, {KEY_VERSION, K1}}},
        !.cfaults = {"init", "begin", "find", "count", "clear", "commit", "insert"},
        !.begins = 2, !.peeks = 0]
CEnvTtl ==
    [NoCacheEnv EXCEPT
        !.begins = 3, !.peeks = 1, !.inserts = 1,
        !.names = {<<"cz">>, <<"CZ">>}, !.times = 0..MaxTime,
        !.rrsets = {RRset(n, 1, d) : n \in {<<"cz">>},
                                     d \in {<<>>} \cup {<<Rd(a, "a")>> : a \in 0..MaxTtl}
                                           \cup {<<Rd(a, "a"), Rd(b, "b")>> : a, b \in 0..MaxTtl}},
        !.ranks = {KR_RANK_NONAUTH, KR_RANK_SECURE}]
CEnvRank ==
    [NoCacheEnv EXCEPT
        !.stores = {Populated({KEY_VERSION, K1, K2})},
        !.begins = 2, !.peeks = 1, !.inserts = 2, !.times = {1},
        !.tags = {KR_CACHE_RR, KR_CACHE_PKT}, !.names = {<<"cz">>, <<"nic", "cz">>},
        !.headers = {Entry(1, 1, r, <<Rd(1, "b")>>) :
                        r \in {KR_RANK_BAD, KR_RANK_NONAUTH, KR_RANK_SECURE}}]
CEnvTxn ==
    [NoCacheEnv EXCEPT
        !.stores = {Populated({KEY_VERSION, K1})},
        !.cfaults = {"begin", "commit"}, !.slots = TxnIds,
        !.begins = MaxBegins, !.peeks = 1, !.inserts = 1, !.times = {1},
        !.headers = {Entry(1, 1, KR_RANK_NONAUTH, <<Rd(1, "b")>>)}]
CEnvFault ==
    [NoCacheEnv EXCEPT
        !.stores = {Populated({KEY_VERSION, K1})},
        !.cfaults = {"begin", "find", "clear", "commit", "insert", "del", "malloc"},
        !.api = "other", !.begins = 2, !.peeks = 1, !.inserts = 1, !.deletes = 1,
        !.times = {1, NoTime}, !.headers = {Entry(1, 1, KR_RANK_NONAUTH, <<Rd(1, "b")>>)},
        !.rrsets = {RRset(<<"cz">>, 1, <<Rd(1, "a")>>)}, !.ranks = {KR_RANK_NONAUTH}]
CacheEnvs == {CEnvOpen, CEnvOpenFaulty, CEnvTtl, CEnvRank, CEnvTxn, CEnvFault}

CacheInit ==
    /\ Idle
    /\ env \in CacheEnvs
    /\ cache \in {CacheOn(s) : s \in env.stores}
    /\ res = NoRes
    /\ rplan = NoPlan
    /\ heap = NoHeap
    /\ net = NoNet

CacheNext ==
    \/ CacheOpen
    \/ \E x \in env.slots, flags \in {{}, {"NAMEDB_RDONLY"}} : TxnBegin(x, flags)
    \/ \E x \in env.slots : TxnCommit(x)
    \/ \E x \in env.slots : TxnAbort(x)
    \/ \E x \in env.slots, tag \in env.tags, name \in env.names, timestamp \in env.times :
           Peek(x, tag, name, 1, timestamp)
    \/ \E x \in env.slots, tag \in env.tags, name \in env.names, header \in env.headers :
           Insert(x, tag, name, 1, header, header.data)
    \/ \E x \in env.slots, tag \in env.tags, name \in env.names : Remove(x, tag, name, 1)
    \/ \E x \in env.slots : Clear(x)
    \/ \E x \in env.slots, name \in env.names, timestamp \in env.times :
           PeekRr(x, RRset(name, 1, <<>>), timestamp)
    \/ \E x \in env.slots, rr \in env.rrsets, rank \in env.ranks,
          timestamp \in env.times \ {NoTime} :
           InsertRr(x, rr, rank, timestamp)
    \/ Materialize

CacheSpec == CacheInit /\ [][CacheNext]_vars

(* --------------------------- the plan's callers ------------------------ *)
PlanCommit(p, l) ==
    /\ rplan' = [p EXCEPT !.last = l]
    /\ UNCHANGED <<tasks, outstanding, conns, concurrent, queries, dropped, timeouts, errs,
                   log, cache, res, heap, net, env>>

\* The queries of the plan and the null pointer.
Pointers == 0..Len(rplan.queries)

Push(parent, name, cls, type) ==
    /\ Len(rplan.queries) < env.nqueries
    /\ \E o \in kr_rplan_push(rplan, parent, name, cls, type) :
           PlanCommit(o.p, [NoLast EXCEPT !.op = "push", !.parent = parent, !.name = name,
                                          !.cls = cls, !.type = type, !.q = o.ret])

Pop(qry) ==
    LET o == kr_rplan_pop(rplan, qry) IN
    PlanCommit(o.p, [NoLast EXCEPT !.op = "pop", !.q = qry, !.ret = o.ret])

Satisfies(closure, name, cls, type) ==
    PlanCommit(rplan, [NoLast EXCEPT !.op = "satisfies", !.q = closure, !.name = name,
                                     !.cls = cls, !.type = type,
                                     !.sat = kr_rplan_satisfies(rplan, closure, name, cls, type)])

\* The runs of the plan.  "stack": many queries of one kind pushed and
\* popped in any order, allocations failing.  "chain": queries of several
\* names and types under each other, asked what they satisfy.
PEnvStack ==
    [ntasks |-> 0, nqueries |-> MaxQueries, palloc |-> TRUE, psat |-> FALSE,
     names |-> {<<"cz">>, NullName}, types |-> {KNOT_RRTYPE_A}]
PEnvChain ==
    [ntasks |-> 0, nqueries |-> MaxQueries - 1, palloc |-> FALSE, psat |-> TRUE,
     names |-> {<<"cz">>, <<"nic", "cz">>, <<"NIC", "cz">>},
     types |-> {KNOT_RRTYPE_A, KNOT_RRTYPE_AAAA}]
PlanEnvs == {PEnvStack, PEnvChain}

PlanInit ==
    /\ Idle
    /\ cache = CacheOn(EmptyStore)
    /\ res = NoRes
    /\ rplan = NoPlan
    /\ heap = NoHeap
    /\ net = NoNet
    /\ env \in PlanEnvs

PlanNext ==
    \/ \E parent \in Pointers, name \in env.names, type \in env.types :
           Push(parent, name, KNOT_CLASS_IN, type)
    \/ \E qry \in Pointers : Pop(qry)
    \/ \E closure \in Pointers, name \in env.names, type \in env.types :
           env.psat /\ Satisfies(closure, name, KNOT_CLASS_IN, type)

PlanSpec == PlanInit /\ [][PlanNext]_vars

(* ------------------------- the freelists' users ------------------------ *)
HeapCommit(h, op, obj) ==
    /\ heap' = [h EXCEPT !.last = [op |-> op, obj |-> obj,
                                   len |-> IF op = "pool_release" THEN Len(heap.pools)
                                           ELSE Len(heap.ioreqs)]]
    /\ UNCHANGED <<tasks, outstanding, conns, concurrent, queries, dropped, timeouts, errs,
                   log, cache, res, rplan, net, env>>

\* qr_task_create takes an arena.
TaskCreate ==
    /\ env.arenas
    /\ \E o \in task_pool(heap) : HeapCommit(o.h, "pool_take", o.ret)

\* qr_task_free gives the arena of a task back.
TaskFree(mp) ==
    /\ heap.mp[mp] = "used"
    /\ \E h \in pool_release(heap, mp) : HeapCommit(h, "pool_release", mp)

\* ioreq_spawn, qr_task_send or the connect of qr_task_step takes an object;
\* with none to be had the caller returns.
IoreqTake ==
    /\ env.requests
    /\ \E o \in ioreq_take(heap) : HeapCommit(o.h, "ioreq_take", o.ret)

\* A callback of the loop (on_send, on_write, on_connect, ioreq_on_close) or
\* a request that could not be started gives its object back.
IoreqRelease(req) ==
    /\ heap.req[req] = "used"
    /\ \E h \in ioreq_release(heap, req) : HeapCommit(h, "ioreq_release", req)

\* The runs of the freelists: tasks created and freed, and requests taken
\* and released, each with and without allocations failing.
HEnvTasks == [ntasks |-> 0, arenas |-> TRUE, requests |-> FALSE, mallocfail |-> TRUE,
              pushfail |-> TRUE]
HEnvRequests == [ntasks |-> 0, arenas |-> FALSE, requests |-> TRUE, mallocfail |-> FALSE,
                 pushfail |-> FALSE]
HEnvStarved == [ntasks |-> 0, arenas |-> FALSE, requests |-> TRUE, mallocfail |-> TRUE,
                pushfail |-> TRUE]
HeapEnvs == {HEnvTasks, HEnvRequests, HEnvStarved}

HeapInit ==
    /\ Idle
    /\ cache = CacheOn(EmptyStore)
    /\ res = NoRes
    /\ rplan = NoPlan
    /\ heap = NoHeap
    /\ net = NoNet
    /\ env \in HeapEnvs

HeapNext ==
    \/ TaskCreate
    \/ \E mp \in PoolIds : TaskFree(mp)
    \/ IoreqTake
    \/ \E req \in ReqIds : IoreqRelease(req)

HeapSpec == HeapInit /\ [][HeapNext]_vars

(* ------------------------- the resolver's rounds ----------------------- *)
\* kr_resolve pushes the query asked for on an empty plan.
Resolve(name, type) ==
    /\ rplan.queries = <<>>
    /\ \E o \in kr_rplan_push(rplan, NoQuery, name, KNOT_CLASS_IN, type) :
           PlanCommit(o.p, [NoLast EXCEPT !.op = "push", !.name = name,
                                          !.cls = KNOT_CLASS_IN, !.type = type, !.q = o.ret])

\* One round of resolve_iterative's loop.
Iterate(e, resolved) ==
    /\ rplan.pending # <<>>
    /\ Len(rplan.queries) + 2 <= env.nqueries
    /\ \E p \in iterate(rplan, e, resolved) :
           PlanCommit(p, [NoLast EXCEPT !.op = "iterate", !.q = kr_rplan_current(rplan),
                                        !.name = e.name, !.unspec = e.valid /\ ~e.addr])

\* The runs of the resolver: nameservers named in either case, and
\* allocations failing.
IEnvCase == [ntasks |-> 0, nqueries |-> MaxQueries + 1, palloc |-> FALSE,
             names |-> {<<"ns", "cz">>, <<"NS", "cz">>, <<"cz">>},
             types |-> {KNOT_RRTYPE_A, KNOT_RRTYPE_AAAA}]
IEnvStarved == [ntasks |-> 0, nqueries |-> MaxQueries + 1, palloc |-> TRUE,
                names |-> {<<"ns", "cz">>, <<"cz">>}, types |-> {KNOT_RRTYPE_A}]
IterEnvs == {IEnvCase, IEnvStarved}

IterInit ==
    /\ Idle
    /\ cache = CacheOn(EmptyStore)
    /\ res = NoRes
    /\ rplan = NoPlan
    /\ heap = NoHeap
    /\ net = NoNet
    /\ env \in IterEnvs

IterNext ==
    \/ \E name \in env.names, type \in env.types : Resolve(name, type)
    \/ \E e \in Elects, resolved \in BOOLEAN : Iterate(e, resolved)

IterSpec == IterInit /\ [][IterNext]_vars

(* ------------------------- the network's users ------------------------ *)
NetCommit(n, op, addr, port, flags, ret) ==
    /\ net' = [n EXCEPT !.last = [op |-> op, addr |-> addr, port |-> port, flags |-> flags,
                                  ret |-> ret, before |-> net.endpoints]]
    /\ UNCHANGED <<tasks, outstanding, conns, concurrent, queries, dropped, timeouts, errs,
                   log, cache, res, rplan, heap, env>>

\* net.listen of the bindings, or any other caller of network_listen.
Listen(addr, port, flags) ==
    /\ \A a \in DOMAIN net.endpoints : Len(net.endpoints[a]) < MaxEndpoints
    /\ \E o \in network_listen(net, addr, port, flags) :
           NetCommit(o.net, "listen", addr, port, flags, o.ret)

\* net.close of the bindings.
Close(addr, port) ==
    LET o == network_close(net, addr, port)
    IN  NetCommit(o.net, "close", addr, port, NET_DOWN, o.ret)

\* The runs of the network: both protocols on every address as the
\* bindings ask for, one protocol at a time, and binds and allocations
\* failing.
NEnvBoth == [addrs |-> {Loopback4, Loopback6, Garbage4, Garbage6}, ports |-> {0, 53, 54},
             kinds |-> {NET_UDP \cup NET_TCP}, bindfail |-> TRUE, pushfail |-> FALSE,
             mallocfail |-> FALSE]
NEnvKinds == [addrs |-> {Loopback4, Loopback6}, ports |-> {53, 54},
              kinds |-> {NET_UDP, NET_TCP, NET_DOWN}, bindfail |-> FALSE,
              pushfail |-> FALSE, mallocfail |-> FALSE]
NEnvStarved == [addrs |-> {Loopback4, Loopback6}, ports |-> {53, 54},
                kinds |-> {NET_UDP \cup NET_TCP}, bindfail |-> TRUE, pushfail |-> TRUE,
                mallocfail |-> TRUE]
NetEnvs == {NEnvBoth, NEnvKinds, NEnvStarved}

NetInit ==
    /\ Idle
    /\ cache = CacheOn(EmptyStore)
    /\ res = NoRes
    /\ rplan = NoPlan
    /\ heap = NoHeap
    /\ net = NoNet
    /\ env \in NetEnvs

NetNext ==
    \/ \E addr \in env.addrs, port \in env.ports, flags \in env.kinds :
           Listen(addr, port, flags)
    \/ \E addr \in env.addrs, port \in env.ports : Close(addr, port)

NetSpec == NetInit /\ [][NetNext]_vars

Fill(n) == [i \in 1..n |-> 1]

\* The environments a run may have.  "herd": a crowd of clients whose layers
\* ask for the same kind of datagram subquery once, nothing failing.
\* "pair": two clients, two fingerprints, with failing sends, connects and
\* allocations and immediate re-entries.  "solo": one client of any kind,
\* datagram and stream subqueries, retransmission, long produce runs and
\* answers arriving in chunks.
EnvHerd ==
    [ntasks |-> MaxTasks, srcs |-> {"udp"}, socks |-> {"DGRAM"}, keys |-> {1},
     runs |-> {1}, io |-> 1, reentry |-> 0, retries |-> 0, faults |-> {},
     chunks |-> {},
     bad |-> {}, cchunks |-> {<<0, 1, 1>>}]
EnvPair ==
    [ntasks |-> 2, srcs |-> {"udp"}, socks |-> {"DGRAM"}, keys |-> Keys,
     runs |-> {1}, io |-> 1, reentry |-> 0, retries |-> 0,
     faults |-> {"reserve", "send"}, chunks |-> {},
     bad |-> {}, cchunks |-> {<<0, 1, 1>>}]
EnvSolo ==
    [ntasks |-> 1, srcs |-> {"udp", "none"}, socks |-> {"DGRAM"}, keys |-> Keys,
     runs |-> {1, KR_ITER_LIMIT}, io |-> MaxIoIter, reentry |-> MaxReentry,
     retries |-> MAX_PENDING, faults |-> {"start", "send", "status", "recv", "timer"},
     chunks |-> {},
     bad |-> {}, cchunks |-> {<<0, 1, 1>>}]
EnvStream ==
    [ntasks |-> 1, srcs |-> {"tcp"}, socks |-> {"DGRAM", "STREAM"}, keys |-> {1},
     runs |-> {1}, io |-> MaxIoIter, reentry |-> MaxReentry, retries |-> 0,
     faults |-> {"start", "send", "status"},
     chunks |-> {<<0>>} \cup {<<0, p>> \o Fill(l) : p \in 0..(MaxPktSize + 1), l \in 0..MaxPktSize},
     bad |-> {}, cchunks |-> {<<0, 1, 1>>}]
EnvConn ==
    [ntasks |-> 2, srcs |-> {"tcp"}, socks |-> {"STREAM"}, keys |-> {1},
     runs |-> {1}, io |-> 1, reentry |-> 0, retries |-> 0, faults |-> {},
     chunks |-> {<<0, MaxPktSize, 1>>},
     bad |-> {}, cchunks |-> {<<0, 1, 1>>}]
\* "gate": clients that send malformed packets and responses, and TCP
\* clients whose chunks are not one whole message.
EnvGate ==
    [ntasks |-> 2, srcs |-> {"udp", "tcp"}, socks |-> {"DGRAM"}, keys |-> {1},
     runs |-> {1}, io |-> 1, reentry |-> 0, retries |-> 0, faults |-> {},
     chunks |-> {}, bad |-> BadQueries,
     cchunks |-> {<<0>>, <<0, 0>>, <<0, 1, 1>>, <<0, 2, 1>>, <<0, 1, 1, 2>>, <<1, 0, 1>>}]
\* "asm": one query of the daemon itself whose subqueries go over streams
\* that deliver any chunks, the timeout firing at any time.
EnvAsm ==
    [ntasks |-> 1, srcs |-> {"none"}, socks |-> {"STREAM"}, keys |-> {1},
     runs |-> {1}, io |-> MaxIoIter, reentry |-> 0, retries |-> 0, faults |-> {},
     chunks |-> UNION {[1..n -> 0..2] : n \in 1..MaxPktSize},
     bad |-> {}, cchunks |-> {}]
Envs == {EnvHerd, EnvPair, EnvSolo, EnvStream, EnvConn, EnvGate, EnvAsm}
\* "empty": a layer that may hand out an address list whose first entry is
\* the terminator.
EnvEmpty ==
    [ntasks |-> 1, srcs |-> {"udp"}, socks |-> {"DGRAM", "STREAM"}, keys |-> {1},
     runs |-> {1}, io |-> 1, reentry |-> MaxReentry, retries |-> 1,
     faults |-> {"empty", "start"}, chunks |-> {},
     bad |-> {}, cchunks |-> {<<0, 1, 1>>}]
LayerEnvs == Envs \cup {EnvEmpty}

Init ==
    /\ tasks = [t \in TaskIds |-> NoTaskRec]
    /\ outstanding = [k \in Keys |-> NoTask]
    /\ conns = [c \in ConnIds |-> [ref |-> TRUE, reading |-> TRUE]]
    /\ concurrent = 0
    /\ queries = 0
    /\ dropped = 0
    /\ timeouts = 0
    /\ errs = {}
    /\ log = <<>>
    /\ cache = CacheOn(EmptyStore)
    /\ res = NoRes
    /\ rplan = NoPlan
    /\ heap = NoHeap
    /\ net = NoNet
    /\ env \in Envs

Next ==
    \/ \E t \in TaskIds : ClientUdp(t)
    \/ \E t \in TaskIds, c \in ConnIds : ClientTcp(t, c)
    \/ \E t \in TaskIds : WorkerResolve(t)
    \/ \E t \in TaskIds : OnTimeout(t)
    \/ \E t \in TaskIds : OnRetransmit(t)
    \/ \E t \in TaskIds, i \in 1..MAX_PENDING : OnSendSub(t, i)
    \/ \E t \in TaskIds : OnSendAnswer(t)
    \/ \E t \in TaskIds, i \in 1..MAX_PENDING : OnConnect(t, i)
    \/ \E t \in TaskIds : OnDead(t)
    \/ \E t \in TaskIds, i \in 1..MAX_PENDING : UdpRecv(t, i)
    \/ \E t \in TaskIds, i \in 1..MAX_PENDING : TcpRecv(t, i)
    \/ \E t \in TaskIds, i \in 1..MAX_PENDING : TcpEof(t, i)
    \/ \E t \in TaskIds : RetransmitClose(t)
    \/ \E t \in TaskIds : QrTaskComplete(t)

Spec == Init /\ [][Next]_vars

\* The worker under layers that keep less of their contract.
LayerInit ==
    /\ Idle
    /\ cache = CacheOn(EmptyStore)
    /\ res = NoRes
    /\ rplan = NoPlan
    /\ heap = NoHeap
    /\ net = NoNet
    /\ env \in LayerEnvs

LayerSpec == LayerInit /\ [][Next]_vars

(* ------------------------------ fairness ------------------------------ *)
Live(t) == tasks[t].st = "live"
\* The positions of the log where event ev of task t is recorded.
Events(l, ev, t) == {i \in DOMAIN l : l[i].ev = ev /\ l[i].t = t}
\* Every armed timeout timer fires unless the task is stepped before:
\* weak fairness of on_timeout, WF_vars(OnTimeout(t)), written out.  The
\* callback is enabled exactly when the timer is armed, and it is the only
\* one that logs "on_timeout".
TimeoutFired(t) == tasks[t].timeout = "active" /\ Events(log', "on_timeout", t) # {}
TimersFire ==
    \A t \in TaskIds :
        []<>(tasks[t].timeout # "active") \/ []<><<TimeoutFired(t)>>_vars
FairSpec == Spec /\ TimersFire

(* ----------------------------- properties ----------------------------- *)
\* The inputs qr_task_step is called with.
Inputs == {In("addr", "pkt"), In("addr", "null"), In("null", "pkt"), NullIn}
\* No callback of the loop is due for task t any more.
Quiet(t) ==
    /\ tasks[t].timeout \notin {"active", "closing"}
    /\ tasks[t].retry \notin {"active", "closing"}
    /\ ~tasks[t].ans_inflight
    /\ tasks[t].dead = 0
    /\ tasks[t].pending = <<>>

\* C1: at no time are two tasks leader for the same fingerprint.
C1_OneLeaderPerKey ==
    \A t, u \in TaskIds :
        (t # u /\ Live(t) /\ Live(u) /\ tasks[t].leading /\ tasks[u].leading)
            => tasks[t].key # tasks[u].key

\* C2: a callback that steps a leader steps every task of its waiting list
\* exactly once, with the (source address, packet) pair the leader was stepped
\* with, and gives back the follower's reference exactly once; when the
\* callback returns the waiting list is empty, and the leader leads only if
\* it registered again.
C2_FollowersWoken ==
    [][\A L \in TaskIds :
          (Live(L) /\ tasks[L].leading /\ Events(log', "step", L) # {})
          => LET W == tasks[L].waiting
                 i0 == CHOOSE i \in Events(log', "step", L) :
                           \A j \in Events(log', "step", L) : i <= j
                 woken(f) == {i \in Events(log', "step", f) \cup Events(log', "stale", f) :
                                  log'[i].x = 0}
             IN  /\ \A n \in DOMAIN W :
                       /\ Cardinality(woken(W[n])) = 1
                       /\ \A i \in woken(W[n]) :
                              /\ log'[i].src = log'[i0].src
                              /\ log'[i].pkt = log'[i0].pkt
                              /\ log'[i].ev = "step"
                       /\ Cardinality(Events(log', "unref", W[n])) = 1
                 /\ tasks'[L].waiting = <<>>
                 /\ tasks'[L].leading => Events(log', "lead", L) # {}]_vars

C2_Witness ==
    \E L \in TaskIds :
        /\ Cardinality(Events(log, "step", L)) = 1
        /\ Cardinality(Events(log, "unlead", L)) = 1
        /\ \E f, g \in TaskIds \ {L} :
              /\ f # g
              /\ \E i \in Events(log, "step", f), j \in Events(log, "step", g) :
                    log[i].pkt = "pkt" /\ log[j].pkt = "pkt"
              /\ Events(log, "unref", f) # {} /\ Events(log, "unref", g) # {}

C4_Entry ==
    \A k \in Keys :
        outstanding[k] # NoTask =>
            /\ Live(outstanding[k])
            /\ tasks[outstanding[k]].leading
            /\ ~tasks[outstanding[k]].finished
            /\ tasks[outstanding[k]].key = k

C4_Change ==
    \A k \in Keys :
        outstanding'[k] # outstanding[k] =>
            IF outstanding'[k] = NoTask
            THEN \E i \in DOMAIN log' : log'[i].ev = "unlead" /\ log'[i].x = k
            ELSE \E i \in Events(log', "lead", outstanding'[k]) : log'[i].x = k

C4_Outstanding == [](C4_Entry) /\ [][C4_Change]_vars

C4_Witness ==
    \E k \in Keys, t \in TaskIds :
        /\ outstanding[k] = NoTask
        /\ Events(log, "unlead", t) # {}
        /\ \E i \in Events(log, "lead", t) : log[i].x # k
        /\ outstanding[tasks[t].key] = t

\* C5: subreq_finalize called again on a task, with nothing in between,
\* changes nothing: no timer, handle, table entry, waiting list or
\* reference changes and no follower is stepped.
C5_Idempotent ==
    \A t \in TaskIds :
        (Live(t) /\ ~tasks[t].finished) =>
            \A in \in Inputs :
                \A s1 \in subreq_finalize(St, t, in) :
                    LET c == [s1 EXCEPT !.log = <<>>] IN
                    \A s2 \in subreq_finalize(c, t, in) :
                        /\ [s2 EXCEPT !.log = <<>>] = c
                        /\ Len(s2.log) = 1

\* The callback that ran last called subreq_finalize twice on a task that
\* led with a handle open (the timeout timer could not be started).
C5_Witness ==
    \E i \in DOMAIN log :
        /\ i > 1
        /\ log[i].ev = "cancel"
        /\ log[i - 1].ev # "step"
        /\ \E j \in 1..(i - 1) : log[j].ev = "lead" /\ log[j].t = log[i].t

\* C6: qr_task_step on a finished task returns ESTALE and changes nothing,
\* whatever it is called with; a task is answered at most once.
C6_Stale ==
    \A t \in TaskIds :
        /\ tasks[t].answers <= 1
        /\ (Live(t) /\ tasks[t].finished) =>
              \A in \in Inputs :
                  qr_task_step(St, t, in, 0) =
                      {[St EXCEPT !.ret = ESTALE,
                                  !.log = <<[ev |-> "stale", t |-> t, x |-> 0,
                                             src |-> in.src, pkt |-> in.pkt]>>]}

\* A finished task whose answer is still being sent while requests of its
\* last subquery have not been called back yet.
C6_Witness ==
    \E t \in TaskIds :
        Live(t) /\ tasks[t].finished /\ tasks[t].ans_inflight /\ tasks[t].dead > 0

\* C7 (as stated): the number of produce calls of a task never exceeds
\* KR_ITER_LIMIT.
C7_AtMostLimit == \A t \in TaskIds : tasks[t].nproduce <= KR_ITER_LIMIT

\* C7 (amended): the number of produce calls of a task never exceeds
\* KR_ITER_LIMIT + 1; the call that takes iter_count over the limit is made.
C7_AtMostLimitPlusOne ==
    \A t \in TaskIds :
        /\ tasks[t].nproduce <= KR_ITER_LIMIT + 1
        /\ Live(t) => tasks[t].nproduce = tasks[t].iter_count

C7_Witness ==
    \E t \in TaskIds :
        tasks[t].nproduce = KR_ITER_LIMIT + 1 /\ tasks[t].finished /\ Live(t)

\* C8: while a task of a TCP client is mid-assembly and not completed, its
\* connection handle is un-referenced and not read from.
C8_PausedWhileAssembling ==
    \A t \in TaskIds :
        (Live(t) /\ tasks[t].src = "tcp" /\ tasks[t].completes = 0
                 /\ tasks[t].bytes_remaining > 0)
            => /\ ~conns[tasks[t].conn].reading
               /\ ~conns[tasks[t].conn].ref

\* C9: once every query is answered and no callback is due any more,
\* every task has completed and stats.concurrent is back at 0.
C9_ConcurrentDrains ==
    (\A t \in TaskIds : tasks[t].st # "none" => (tasks[t].finished /\ Quiet(t)))
        => /\ concurrent = 0
           /\ \A t \in TaskIds : tasks[t].st # "none" => tasks[t].completes = 1

\* The references held on task t: the one of qr_task_create until the task
\* completes, one for each request in flight, one for each link in a
\* waiting list, one while the retry timer closes.
Holders(t) ==
    (IF tasks[t].completes = 0 THEN 1 ELSE 0)
    + Cardinality({i \in DOMAIN tasks[t].pending : InFlight(tasks[t].pending[i])})
    + tasks[t].dead
    + (IF tasks[t].ans_inflight THEN 1 ELSE 0)
    + (IF tasks[t].retry = "closing" THEN 1 ELSE 0)
    + Cardinality({w \in TaskIds \X (1..MaxTasks) :
                       /\ w[2] \in DOMAIN tasks[w[1]].waiting
                       /\ tasks[w[1]].waiting[w[2]] = t})

\* C10: refs counts the holders of the task and never underflows; a task
\* is freed once, when nothing holds it, and no callback uses a freed task.
C10_Refs ==
    /\ errs \cap {"use_after_free", "refs_underflow", "double_free"} = {}
    /\ \A t \in TaskIds :
          /\ Live(t) => (tasks[t].refs = Holders(t) /\ tasks[t].refs > 0)
          /\ tasks[t].st = "freed" => (tasks[t].refs = 0 /\ Holders(t) = 0)

C10_Witness ==
    \E t, u \in TaskIds :
        /\ tasks[t].st = "freed"
        /\ Events(log, "free", t) # {}
        /\ Live(u) /\ tasks[u].refs >= 3

(* ------------------------- queries and streams ------------------------ *)
\* A packet a master socket drops: no packet, one that does not parse or
\* is not parsed to its end, or a response.
Bad(q) == q.parse # "ok" \/ q.rest > 0 \/ q.qr = 1

\* C11: a packet on a task-less socket that is null, fails to parse, is not
\* fully parsed or has QR = 1 is dropped: stats.dropped grows by one, an
\* error is returned, and no task, counter or table entry changes and no
\* task is stepped, so nothing is sent.
C11_DroppedSilently ==
    [][\A i \in DOMAIN log' :
          (log'[i].ev = "exec" /\ log'[i].t = NoTask /\ Bad(log'[i].x))
          => /\ dropped' = dropped + 1
             /\ tasks' = tasks
             /\ concurrent' = concurrent
             /\ queries' = queries
             /\ outstanding' = outstanding
             /\ \A j \in DOMAIN log' : log'[j].ev \notin {"step", "answer", "dgram"}
             /\ \A s \in worker_exec(St, NoTask, 1, "udp", 0, log'[i].src, log'[i].x) :
                    s.ret < 0]_vars

\* A response (QR = 1) was dropped while a task was leading a subquery.
C11_Witness ==
    /\ dropped > 0
    /\ \E i \in DOMAIN log :
          log[i].ev = "exec" /\ log[i].t = NoTask /\ log[i].x = Query("ok", 0, 1)
    /\ \E t \in TaskIds : Live(t) /\ tasks[t].leading

\* C12: a chunk on a task-less stream that holds exactly 2 + nbytes bytes,
\* nbytes being its prefix, is dispatched at once as a packet of its nbytes
\* payload bytes; a shorter or longer chunk is not dispatched: a task is
\* created and bytes_remaining is set.
C12_ShortChunkBuffered ==
    [][(log' # <<>> /\ log'[1].ev = "chunk" /\ log'[1].t = NoTask /\ Len(log'[1].x) >= 2) =>
          LET msg == log'[1].x
              D == {i \in DOMAIN log' : log'[i].ev = "dispatch"}
          IN  IF Len(msg) = 2 + msg_size(msg)
              THEN \E i \in D :
                      /\ D = {i}
                      /\ log'[i].x = [size |-> msg_size(msg),
                                      bytes |-> SubSeq(msg, 3, Len(msg))]
              ELSE /\ D = {}
                   /\ \E t \in TaskIds :
                         /\ tasks[t].st = "none"
                         /\ tasks'[t].st = "live"
                         /\ tasks'[t].bytes_remaining > 0]_vars

RECURSIVE Flat(_)
\* The bytes of a sequence of chunks.
Flat(R) == IF R = <<>> THEN <<>> ELSE Head(R) \o Flat(Tail(R))

\* C13: on the stream of a task, a message with a payload of n >= 1 bytes that
\* arrives in chunks, the first with the whole prefix, is dispatched once,
\* with its last byte, as a packet of exactly the payload; before that
\* nothing is dispatched, pktbuf.size + bytes_remaining = n and pktbuf.size
\* is within the buffer.
C13_AssembledOnce ==
    [][\A t \in TaskIds :
          (log' # <<>> /\ log'[1].ev = "chunk" /\ log'[1].t = t) =>
             LET R == Append(tasks[t].rx, log'[1].x)
                 all == Flat(R)
                 n == IF Len(R[1]) >= 2 THEN wire_read_u16(R[1]) ELSE 0
                 D == {i \in DOMAIN log' : log'[i].ev = "dispatch" /\ log'[i].t = t}
             IN  (n >= 1 /\ n <= MaxPktSize /\ Len(all) <= 2 + n) =>
                    IF Len(all) = 2 + n
                    THEN \E i \in D :
                            /\ D = {i}
                            /\ log'[i].pkt = "pkt"
                            /\ log'[i].x = [size |-> n, bytes |-> SubSeq(all, 3, Len(all))]
                    ELSE /\ D = {}
                         /\ Events(log', "step", t) = {}
                         /\ Len(tasks'[t].pktbuf) + tasks'[t].bytes_remaining = n
                         /\ Len(tasks'[t].pktbuf) <= MaxPktSize]_vars


(* ------------------------- the cache: properties ---------------------- *)
\* The entry that transaction x sees under the key of (tag, name, type).
Sees(c, x, tag, name, type) == cache_key(tag, name, type) \in DOMAIN c.txns[x].view
Seen(c, x, tag, name, type) == c.txns[x].view[cache_key(tag, name, type)]

\* C14: a peek at time t that finds an entry cached at t0 with TTL T returns
\* Ok iff the drift, t - t0 or 0 when t <= t0, is at most T; on Ok the
\* caller's timestamp holds the drift afterwards, otherwise the peek returns
\* ESTALE and the timestamp is as it was.
C14_Lifetime ==
    [][(/\ res'.op = "peek"
        /\ res'.time # NoTime
        /\ res'.berr = 0
        /\ txn_is_valid(cache, res'.x)
        /\ Sees(cache, res'.x, res'.tag, res'.name, res'.type))
       => LET e == Seen(cache, res'.x, res'.tag, res'.name, res'.type)
              t == res'.time
              drift == IF t <= e.timestamp THEN 0 ELSE t - e.timestamp
          IN  /\ (res'.ret = 0) <=> (drift <= e.ttl)
              /\ res'.ret = 0 => res'.otime = drift
              /\ res'.ret # 0 => res'.ret = ESTALE /\ res'.otime = t
              /\ res'.entry = e]_vars
\* An entry is read when exactly its TTL has passed.
C14_Witness ==
    /\ res.op = "peek"
    /\ res.ret = 0
    /\ res.time > res.entry.timestamp
    /\ res.otime = res.entry.ttl
    /\ res.otime > 0

\* What kr_cache_peek_rr of R's owner and type gives back is R as it was
\* inserted with the rank: no error, drift 0, the count, the rdata, the rank.
GivesBack(p, R, rank) ==
    /\ p.ret = 0
    /\ p.timestamp = 0
    /\ p.rr.rrs.rr_count = R.rrs.rr_count
    /\ p.rr.rrs.data = R.rrs.data
    /\ p.rank = rank
PeekBack(c, x, R, now) ==
    {p \in kr_cache_peek_rr(c, x, RRset(R.owner, R.type, <<>>), 0, now) : p.berr = 0}

\* C15: in every state, a kr_cache_insert_rr of a non-empty RRset R at time
\* now that succeeds stores a header whose TTL is the greatest TTL of R's
\* records, and a kr_cache_peek_rr of R's owner and type at time now gives
\* back R with drift 0 and the rank inserted, both in the same transaction
\* and in a transaction begun after the commit.
C15_RoundTrip ==
    \A x \in env.slots, R \in env.rrsets, rank \in env.ranks, now \in env.times \ {NoTime} :
        \A i \in kr_cache_insert_rr(cache, x, R, rank, now) :
            (R.rrs.rr_count > 0 /\ i.ret = 0) =>
                /\ LET h == Seen(i.c, x, KR_CACHE_RR, R.owner, R.type) IN
                       /\ \A j \in 1..R.rrs.rr_count : h.ttl >= R.rrs.data[j].ttl
                       /\ \E j \in 1..R.rrs.rr_count : h.ttl = R.rrs.data[j].ttl
                /\ \A p \in PeekBack(i.c, x, R, now) : GivesBack(p, R, rank)
                /\ \A m \in kr_cache_txn_commit(i.c, x) :
                       m.ret = 0 =>
                           \A b \in kr_cache_txn_begin(m.c, x, {"NAMEDB_RDONLY"}) :
                               b.ret = 0 =>
                                   \A p \in PeekBack(b.c, x, R, now) : GivesBack(p, R, rank)
\* A set of two records of different TTLs, stored with the greater TTL in
\* the header, is read back in a later, read-only transaction at the time
\* it was inserted.
C15_Witness ==
    /\ res.op = "peek_rr"
    /\ res.ret = 0
    /\ res.otime = 0
    /\ cache.txns[res.x].rdonly
    /\ res.orr.rrs.rr_count = 2
    /\ res.orr.rrs.data[1].ttl < res.orr.rrs.data[2].ttl
    /\ Seen(cache, res.x, KR_CACHE_RR, res.rr.owner, res.rr.type).ttl = res.orr.rrs.data[2].ttl
    /\ Seen(cache, res.x, KR_CACHE_RR, res.rr.owner, res.rr.type).timestamp = res.time
    /\ res.orank = KR_RANK_SECURE

\* C16: a kr_cache_open in which no call of the backend fails leaves a store
\* that held the version key as it was, and leaves any other store, empty
\* or not, holding the version key and nothing else.
C16_Version ==
    [][(res'.op = "open" /\ ~cache.open /\ res'.ret = 0 /\ ~res'.failed)
       => /\ cache'.open
          /\ cache'.db = IF KEY_VERSION \in DOMAIN cache.db
                         THEN cache.db
                         ELSE Populated({KEY_VERSION})]_vars
\* A store was purged on open: two transactions were needed, and the
\* version key is all that is left.
C16_Witness ==
    /\ res.op = "open"
    /\ ~res.failed
    /\ cache.stats.txn_write = 2
    /\ DOMAIN cache.db = {KEY_VERSION}

\* C17: a kr_cache_insert on a valid transaction fails only when the backend
\* or the allocation fails, whatever the ranks; when it succeeds the
\* transaction sees the entry inserted under the key, in place of any entry
\* that was there, a peek gives that entry, and the entries under all other
\* keys and tags are as they were.
C17_Replaces ==
    [][(res'.op = "insert" /\ txn_is_valid(cache, res'.x))
       => LET x == res'.x
              key == cache_key(res'.tag, res'.name, res'.type)
          IN  /\ res'.ret # 0 => (res'.berr # 0 \/ res'.ret = ENOMEM)
              /\ res'.ret = 0 =>
                     /\ cache'.txns[x].view = Put(cache.txns[x].view, key, res'.header)
                     /\ \A y \in DOMAIN cache.txns[x].view \ {key} :
                            cache'.txns[x].view[y] = cache.txns[x].view[y]
                     /\ \A p \in kr_cache_peek(cache', x, res'.tag, res'.name, res'.type, NoTime) :
                            p.berr = 0 => p.ret = 0 /\ p.entry = res'.header]_vars
\* An entry of a lower rank was inserted over one of a higher rank (the
\* committed store still holds the old one).
C17_Witness ==
    /\ res.op = "insert"
    /\ res.ret = 0
    /\ Sees(cache, res.x, res.tag, res.name, res.type)
    /\ Seen(cache, res.x, res.tag, res.name, res.type) = res.header
    /\ cache_key(res.tag, res.name, res.type) \in DOMAIN cache.db
    /\ cache.db[cache_key(res.tag, res.name, res.type)].rank > res.header.rank

\* The records of src whose TTL passes the test against drift, in their
\* order, each with its TTL reduced by drift.
Reduced(src, drift, strictly) ==
    LET Valid(r) == IF strictly THEN r.ttl > drift ELSE r.ttl >= drift
        kept == SelectSeq(SubSeq(src.rrs.data, 1, src.rrs.rr_count), Valid)
    IN  [i \in 1..Len(kept) |-> [kept[i] EXCEPT !.ttl = @ - drift]]

\* C18 as stated: a kr_cache_materialize that succeeds copies exactly the
\* records of src whose TTL is strictly greater than drift, each with its
\* TTL reduced by drift, so that every record of dst has a TTL above 0.
C18_StrictlyGreater ==
    (res.op = "materialize" /\ res.ret = 0)
    => /\ res.orr.rrs.data = Reduced(res.rr, res.time, TRUE)
       /\ \A i \in 1..Len(res.orr.rrs.data) : res.orr.rrs.data[i].ttl > 0

\* C18, amended: a kr_cache_materialize that succeeds copies exactly the
\* records of src whose TTL is at least drift, in their order, each with its
\* TTL reduced by drift; every record of dst has a TTL of 0 or more (0 for a
\* record whose TTL equals drift) and no subtraction wraps around.
C18_AtLeast ==
    (res.op = "materialize" /\ res.ret = 0)
    => /\ res.orr.owner = res.rr.owner
       /\ res.orr.type = res.rr.type
       /\ res.orr.rrs.data = Reduced(res.rr, res.time, FALSE)
       /\ res.orr.rrs.rr_count = Len(res.orr.rrs.data)
       /\ \A i \in 1..Len(res.orr.rrs.data) : res.orr.rrs.data[i].ttl >= 0
\* A set was materialized of which one record had expired and one had a TTL
\* equal to the drift.
C18_Witness ==
    /\ res.op = "materialize"
    /\ res.ret = 0
    /\ res.time > 0
    /\ \E i \in 1..res.rr.rrs.rr_count : res.rr.rrs.data[i].ttl = res.time
    /\ \E i \in 1..res.rr.rrs.rr_count : res.rr.rrs.data[i].ttl < res.time
    /\ res.orr.rrs.rr_count = 1
    /\ res.orr.rrs.data[1].ttl = 0

\* The transactions of one kind that are open.
OpenTxns(c, rdonly) == {x \in DOMAIN c.txns : c.txns[x].st = "open" /\ c.txns[x].rdonly = rdonly}

C20_ErrorsPassed ==
    (res.op \in {"peek", "peek_rr", "insert", "insert_rr", "remove", "clear", "commit"})
    => /\ res.berr # 0 => res.ret = res.berr
       /\ res.aborts = IF res.op = "commit" /\ res.berr # 0 THEN 1 ELSE 0

(* ------------------------- the plan: properties ----------------------- *)
\* How often q is in the list l.
Count(l, q) == Cardinality({i \in DOMAIN l : l[i] = q})

\* C21: every query created by kr_rplan_push is in exactly one of pending
\* and resolved, once; kr_rplan_pop of a query takes it out of the list it
\* is in and appends it to resolved; and popping the query a push has just
\* returned leaves pending as it was before the push and resolved one
\* element longer, the query at its tail.
C21_PushPop ==
    [][/\ \A q \in 1..Len(rplan'.queries) :
              Count(rplan'.pending, q) + Count(rplan'.resolved, q) = 1
       /\ (rplan'.last.op = "pop" /\ rplan'.last.q # NoQuery) =>
              /\ rplan'.last.ret = 0
              /\ rplan'.pending = Without(rplan.pending, rplan'.last.q)
              /\ rplan'.resolved = Append(Without(rplan.resolved, rplan'.last.q), rplan'.last.q)
       /\ (rplan'.last.op = "push" /\ rplan'.last.q # NoQuery) =>
              LET o == kr_rplan_pop(rplan', rplan'.last.q) IN
              /\ o.p.pending = rplan.pending
              /\ o.p.resolved = Append(rplan.resolved, rplan'.last.q)
              /\ Len(o.p.resolved) = Len(rplan.resolved) + 1]_vars
\* The query pushed last was popped from under others that stay pending,
\* after another query.
C21_Witness ==
    /\ rplan.last.op = "pop"
    /\ rplan.last.q = Len(rplan.queries)
    /\ Len(rplan.pending) >= 2
    /\ Len(rplan.resolved) >= 2
    /\ rplan.resolved[Len(rplan.resolved)] = rplan.last.q

RECURSIVE Up(_, _, _)
\* The query k parent pointers above q (NoQuery beyond the root).
Up(p, q, k) == IF q = NoQuery \/ k = 0 THEN q ELSE Up(p, p.queries[q].parent, k - 1)
\* The queries above q, and q with them.
Ancestors(p, q) == {Up(p, q, k) : k \in 1..Len(p.queries)} \ {NoQuery}
SelfAndAncestors(p, q) == {Up(p, q, k) : k \in 0..Len(p.queries)} \ {NoQuery}
Provides(p, l) == {a \in 1..Len(p.queries) : QUERY_PROVIDES(p.queries[a], l.name, l.cls, l.type)}

\* C22 as stated: kr_rplan_satisfies(q, name, class, type) is true iff one
\* of the queries above q, reached through parent pointers, has that name,
\* class and type.
C22_Ancestor ==
    rplan.last.op = "satisfies"
    => (rplan.last.sat <=> Ancestors(rplan, rplan.last.q) \cap Provides(rplan, rplan.last) # {})

\* C22, amended: kr_rplan_satisfies(q, name, class, type) is true iff q
\* itself or one of the queries above it has that name (as lowercased by
\* push), class and type; it is false for a null q; and the parent of every
\* query was created before it, so the walk ends.
C22_SelfOrAncestor ==
    /\ \A q \in 1..Len(rplan.queries) : rplan.queries[q].parent < q
    /\ rplan.last.op = "satisfies" =>
           /\ rplan.last.sat <=>
                  SelfAndAncestors(rplan, rplan.last.q) \cap Provides(rplan, rplan.last) # {}
           /\ rplan.last.q = NoQuery => ~rplan.last.sat
\* A query is satisfied by the parent of its parent alone.
C22_Witness ==
    /\ rplan.last.op = "satisfies"
    /\ rplan.last.sat
    /\ rplan.last.q # NoQuery
    /\ Provides(rplan, rplan.last) = {Up(rplan, rplan.last.q, 2)}

(* --------------------- the worker: further properties ----------------- *)
\* The addresses of addrlist a datagram was sent to since the task last
\* cancelled its subrequests: the sends go round the list from its start.
Tried(T) == {i % T.addrlist_count : i \in 0..(T.dgrams - 1)}

\* C23: when on_timeout runs on a timer that is not closing, the addresses
\* it records as timed out are exactly those a datagram was sent to,
\* stats.timeout grows by one and the task is stepped with no packet.
C23_TimeoutPenalty ==
    [][\A t \in TaskIds :
           (log' # <<>> /\ log'[1].ev = "on_timeout" /\ log'[1].t = t) =>
               /\ 0..(log'[1].x - 1) = Tried(tasks[t])
               /\ timeouts' = timeouts + 1
               /\ Len(log') >= 2
               /\ log'[2].ev \in {"step", "stale"}
               /\ log'[2].t = t
               /\ log'[2].pkt = "null"]_vars

\* C24: a response to a subquery that fails to parse is never given to
\* kr_resolve_consume: the task is stepped, and its layers consume, as with
\* no packet.
C24_MalformedAsTimeout ==
    [][\A i \in DOMAIN log' :
           (log'[i].ev = "exec" /\ log'[i].t # NoTask /\ parse_packet(log'[i].x) # 0) =>
               \A j \in DOMAIN log' :
                   (j > i /\ log'[j].ev \in {"step", "stale", "consume"}) => log'[j].pkt = "null"]_vars

\* The addresses on_timeout marks as timed out for task t in the callback
\* of log l.
Penalties(l, t) == UNION {0..(l[j].x - 1) : j \in Events(l, "on_timeout", t)}
\* After position i of l the layers of task t are given the address with
\* no packet (all they need to mark it themselves).
Told(l, i, t) ==
    \E j \in DOMAIN l :
        j > i /\ l[j].ev = "consume" /\ l[j].t = t /\ l[j].src = "addr" /\ l[j].pkt = "null"
Restepped(l, i, t) == \E j \in DOMAIN l : j > i /\ l[j].ev = "step" /\ l[j].t = t
\* A FAIL of task t after position i of l comes after its layers ran again.
OwnVerdict(l, i, t) ==
    \A j \in DOMAIN l :
        (j > i /\ l[j].ev = "finalize" /\ l[j].t = t /\ l[j].pkt = "FAIL") =>
            \E k \in DOMAIN l : i < k /\ k < j /\ l[k].ev = "consume" /\ l[k].t = t

\* C25: an I/O error on a subrequest (a send, write or connect refused or
\* completed with an error) does not by itself finalize the task with FAIL:
\* the address that failed is penalized and the task is stepped again.
C25_IoErrorResteps ==
    [][\A i \in DOMAIN log' :
           log'[i].ev = "ioerr" =>
               /\ OwnVerdict(log', i, log'[i].t)
               /\ log'[i].x \in Penalties(log', log'[i].t) \/ Told(log', i, log'[i].t)
               /\ Restepped(log', i, log'[i].t)]_vars

\* What of C25 holds of every I/O error: no FAIL without the layers.
C25_NoFailByItself ==
    [][\A i \in DOMAIN log' : log'[i].ev = "ioerr" => OwnVerdict(log', i, log'[i].t)]_vars

(* ---------------------- the freelists: properties ---------------------- *)
\* Every entry of freelist q is an object, given back and not taken since,
\* and is there once.
Recycled(q, status) ==
    /\ \A i \in DOMAIN q : q[i] # NULL /\ status[q[i]] = "listed"
    /\ \A i, j \in DOMAIN q : q[i] = q[j] => i = j
\* The last call gave an object to a freelist that held limit entries: the
\* object was freed and the list is as long as it was.
OverflowFreed(op, q, status, limit) ==
    (heap.last.op = op /\ heap.last.len >= limit) =>
        status[heap.last.obj] = "freed" /\ Len(q) = heap.last.len

\* C26: each freelist holds at most MP_FREELIST_SIZE entries, every entry
\* is a non-null object not in use, and an object released to a full
\* freelist is freed, not stored.
C26_Freelists ==
    /\ Len(heap.pools) <= MP_FREELIST_SIZE
    /\ Len(heap.ioreqs) <= MP_FREELIST_SIZE
    /\ Recycled(heap.pools, heap.mp)
    /\ Recycled(heap.ioreqs, heap.req)
    /\ OverflowFreed("pool_release", heap.pools, heap.mp, MP_FREELIST_SIZE)
    /\ OverflowFreed("ioreq_release", heap.ioreqs, heap.req, MP_FREELIST_SIZE)

\* C26 as the code has it: the freelist of I/O request objects is full at
\* four times MP_FREELIST_SIZE entries.
C26_FourTimes ==
    /\ Len(heap.pools) <= MP_FREELIST_SIZE
    /\ Len(heap.ioreqs) <= 4 * MP_FREELIST_SIZE
    /\ Recycled(heap.pools, heap.mp)
    /\ Recycled(heap.ioreqs, heap.req)
    /\ OverflowFreed("pool_release", heap.pools, heap.mp, MP_FREELIST_SIZE)
    /\ OverflowFreed("ioreq_release", heap.ioreqs, heap.req, 4 * MP_FREELIST_SIZE)

\* An I/O request object was released to the full freelist and freed.
C26_Witness ==
    /\ heap.last.op = "ioreq_release"
    /\ heap.last.len = 4 * MP_FREELIST_SIZE
    /\ heap.req[heap.last.obj] = "freed"
    /\ Len(heap.ioreqs) = 4 * MP_FREELIST_SIZE

(* ----------------------- the cache: further properties ----------------- *)
\* C27: when a step of the version check of kr_cache_open (begin, count,
\* clear, commit, insert) fails on a store without the version key, the
\* store is left without it; the key is never stamped on a store whose old
\* contents were not cleared.
C27_NoStampOnFailure ==
    [][(res'.op = "open" /\ ~cache.open /\ res'.ret = 0 /\ KEY_VERSION \notin DOMAIN cache.db)
       => /\ res'.steps => KEY_VERSION \notin DOMAIN cache'.db
          /\ KEY_VERSION \in DOMAIN cache'.db => DOMAIN cache'.db = {KEY_VERSION}]_vars

(* ----------------------- the worker: the iteration limit --------------- *)
\* C28: the callback that takes a task's iter_count above KR_ITER_LIMIT
\* finalizes the task with FAIL and sends its answer, and sends no
\* subquery; while a task lives its iter_count never goes down.
C28_LimitIsFatal ==
    [][\A t \in TaskIds :
           /\ (tasks[t].st = "live" /\ tasks'[t].st = "live")
                  => tasks'[t].iter_count >= tasks[t].iter_count
           /\ (tasks[t].iter_count <= KR_ITER_LIMIT /\ tasks'[t].iter_count > KR_ITER_LIMIT)
                  => /\ tasks'[t].finished
                     /\ \E i \in Events(log', "finalize", t) :
                            /\ log'[i].pkt = "FAIL"
                            /\ \E j \in Events(log', "answer", t) : j > i
                     /\ Events(log', "dgram", t) = {}
                     /\ tasks'[t].pending = <<>>
                     /\ tasks'[t].retry # "active" /\ tasks'[t].timeout # "active"]_vars
\* A task went over the limit in one long run of produce calls and was
\* answered.
C28_Witness ==
    \E t \in TaskIds :
        /\ tasks[t].iter_count = KR_ITER_LIMIT + 1
        /\ tasks[t].finished
        /\ tasks[t].answers = 1
        /\ Events(log, "finalize", t) # {}

(* ----------------------- the worker: lifetime assertions --------------- *)
\* C29: the assertions of qr_task_finalize (the task is not leading) and of
\* qr_task_complete (not leading, waiting list empty) never fail, and a
\* task that is finished or freed leads nothing and has no follower linked.
C29_LifetimeAssertions ==
    /\ errs \cap {"assert_finalize_leading", "assert_complete_waiting",
                  "assert_complete_leading"} = {}
    /\ \A t \in TaskIds :
           (tasks[t].finished \/ tasks[t].st = "freed")
               => ~tasks[t].leading /\ tasks[t].waiting = <<>>
\* A leader was stepped, woke a follower and was finalized in one callback.
C29_Witness ==
    \E t, f \in TaskIds :
        /\ f # t
        /\ \E i \in Events(log, "unlead", t), j \in Events(log, "step", f),
             k \in Events(log, "finalize", t) : i < j /\ j < k
        /\ tasks[t].finished

(* ----------------------- the worker: retransmission -------------------- *)
\* C30: within one round of a subquery (no subreq_finalize of the task in
\* between) only its leader sends, and a datagram goes only to an address
\* of the list that has not been sent one in this round.
C30_OneDatagramPerAddress ==
    [][\A t \in TaskIds :
           \A i \in Events(log', "dgram", t) :
               Events(log', "cancel", t) = {} =>
                   /\ tasks[t].leading
                   /\ log'[i].x \notin Tried(tasks[t])]_vars

\* The callback of log l is a firing of the retry timer of task t, or the
\* completion of one of its requests: the task was not stepped in it.
SameRound(l, t) == Events(l, "cancel", t) = {} /\ tasks[t].st = "live"

\* C31: a firing of the retry timer sends the unchanged pktbuf to
\* addrlist[addrlist_turn] and advances the turn by one modulo
\* addrlist_count; the k-th datagram of a round goes to address
\* k mod addrlist_count; a send that is not started leaves the turn.
C31_RoundRobin ==
    [][\A t \in TaskIds :
           /\ \A i \in Events(log', "dgram", t) :
                  IF SameRound(log', t)
                  THEN /\ log'[i].x = tasks[t].addrlist_turn
                       /\ log'[i].x = tasks[t].dgrams % tasks[t].addrlist_count
                       /\ tasks'[t].addrlist_turn =
                              (tasks[t].addrlist_turn + 1) % tasks[t].addrlist_count
                       /\ tasks'[t].dgrams = tasks[t].dgrams + 1
                       /\ tasks'[t].pktbuf = tasks[t].pktbuf
                  ELSE (tasks'[t].st = "live" /\ \A j \in Events(log', "cancel", t) : j < i) =>
                           /\ log'[i].x = 0
                           /\ tasks'[t].dgrams = 1
                           /\ tasks'[t].addrlist_turn = 1 % tasks'[t].addrlist_count
           /\ (SameRound(log', t) /\ Events(log', "dgram", t) = {} /\ tasks'[t].st = "live")
                  => /\ tasks'[t].addrlist_turn = tasks[t].addrlist_turn
                     /\ tasks'[t].dgrams = tasks[t].dgrams]_vars
\* The retry timer fired and sent the second datagram of the round to the
\* second address; the turn is back at the first.
C31_Witness ==
    \E t \in TaskIds :
        /\ Len(log) = 1 /\ log[1].ev = "dgram" /\ log[1].t = t /\ log[1].x = 1
        /\ tasks[t].dgrams = 2
        /\ tasks[t].addrlist_turn = 0

\* The retry timer of task t fired in this step and retransmit sent nothing.
RetryFailed(t) ==
    /\ tasks[t].retry = "active"
    /\ tasks'[t] # tasks[t]
    /\ \/ log' = <<>>
       \/ Len(log') = 1 /\ log'[1].ev = "ioerr" /\ log'[1].t = t

\* C32: a task never has more than MAX_PENDING handles; when a firing of
\* the retry timer cannot spawn a handle or start the send, the retry timer
\* is stopped, the timeout timer stays armed, and no datagram is sent for
\* the subquery once the retry timer is stopped.
C32_PendingBounded ==
    [][\A t \in TaskIds :
           /\ Len(tasks'[t].pending) <= MAX_PENDING
           /\ RetryFailed(t) =>
                  /\ tasks'[t].retry = "idle"
                  /\ tasks[t].timeout = "active" /\ tasks'[t].timeout = "active"
                  /\ tasks'[t].dgrams = tasks[t].dgrams
           /\ (SameRound(log', t) /\ Events(log', "dgram", t) # {}) => tasks[t].retry = "active"]_vars
\* A leader with MAX_PENDING handles whose retry timer was stopped by the
\* last callback, its timeout timer still armed.
C32_Witness ==
    \E t \in TaskIds :
        /\ log = <<>>
        /\ Len(tasks[t].pending) = MAX_PENDING
        /\ tasks[t].leading
        /\ tasks[t].retry = "idle"
        /\ tasks[t].timeout = "active"

(* ----------------------- the worker: waking followers ------------------ *)
\* The positions of l where a follower of leader t is woken, in order.
Wakes(l, t) == {i \in DOMAIN l : l[i].ev = "wake" /\ l[i].x[1] = t}
\* The number of followers of t woken in l before position i.
WokenBefore(l, t, i) == Cardinality({j \in Wakes(l, t) : j < i})

\* C33: a leader wakes its followers last-enqueued first; each is given the
\* leader's DNS id before it is stepped; the first one woken is given the
\* leader's secret, which is then 0, so the later ones are given 0.
C33_WakeOrder ==
    [][\A t \in TaskIds :
           (tasks[t].leading /\ Events(log', "unlead", t) # {}) =>
               LET W == tasks[t].waiting IN
               /\ Cardinality(Wakes(log', t)) = Len(W)
               /\ \A i \in Wakes(log', t) :
                      LET k == WokenBefore(log', t, i) IN
                      /\ log'[i].t = W[Len(W) - k]
                      /\ log'[i].x[2] = tasks[t].qry.id
                      /\ log'[i].x[3] = IF k = 0 THEN tasks[t].qry.secret ELSE 0
                      /\ \E j \in Events(log', "step", log'[i].t) \cup
                                  Events(log', "stale", log'[i].t) :
                             j = i + 1]_vars
\* A leader with two followers woke them: the one enqueued last was given
\* the secret, the other 0.
C33_Witness ==
    \E t \in TaskIds :
        \E i, j \in Wakes(log, t) :
            /\ i < j
            /\ log[i].x[3] = t /\ log[j].x[3] = 0
            /\ log[i].x[2] = t /\ log[j].x[2] = t
            /\ log[i].t > log[j].t

\* C34: after any sequence of listen and close no address maps to an empty
\* array of endpoints; after a close that returned 0 the address has no
\* endpoint with the closed port left; a close of an address that is not in
\* the map returns ENOENT and changes nothing.
Endpoints(n, addr, port) ==
    IF addr \in DOMAIN n.endpoints
    THEN {i \in 1..Len(n.endpoints[addr]) : n.endpoints[addr][i].port = port}
    ELSE {}
C34_NoEmptyArray == \A a \in DOMAIN net.endpoints : Len(net.endpoints[a]) > 0
C34_ClosedAll ==
    (net.last.op = "close" /\ net.last.ret = 0)
        => Endpoints(net, net.last.addr, net.last.port) = {}
C34_NoEntry ==
    (net.last.op = "close" /\ net.last.addr \notin DOMAIN net.last.before)
        => (net.last.ret = ENOENT /\ net.endpoints = net.last.before)
C34_CloseRemovesAll == C34_NoEmptyArray /\ C34_ClosedAll /\ C34_NoEntry

\* The queries an iterate call added to the plan, oldest first.
Added == [i \in 1..(Len(rplan'.queries) - Len(rplan.queries)) |->
              rplan'.queries[Len(rplan.queries) + i]]
AddedIds == [i \in 1..Len(Added) |-> Len(rplan.queries) + i]
Popped(cur) ==
    /\ rplan'.queries = rplan.queries
    /\ rplan'.pending = Without(rplan.pending, cur)
    /\ rplan'.resolved = Append(rplan.resolved, cur)
\* The current query was parked by the call: it is flagged, still pending,
\* and the queries added are its children on top of the pending list.
Parked(cur) ==
    /\ rplan'.queries[cur] = [rplan.queries[cur] EXCEPT !.flags = @ \cup {"AWAIT_ADDR"}]
    /\ \A q \in 1..Len(rplan.queries) : q # cur => rplan'.queries[q] = rplan.queries[q]
    /\ rplan'.pending = rplan.pending \o AddedIds
    /\ rplan'.resolved = rplan.resolved
    /\ \A i \in 1..Len(Added) :
           /\ Added[i].parent = cur
           /\ Added[i].sclass = KNOT_CLASS_IN
           /\ Added[i].sname = knot_dname_to_lower(rplan'.last.name)
           /\ Added[i].flags = {}
\* Some query from cur upwards has one of these names and asks for A or AAAA.
Asked(cur, names) ==
    \E a \in SelfAndAncestors(rplan, cur) :
        /\ rplan.queries[a].sname \in names
        /\ rplan.queries[a].sclass = KNOT_CLASS_IN
        /\ rplan.queries[a].stype \in {KNOT_RRTYPE_A, KNOT_RRTYPE_AAAA}
NsRound == rplan'.last.op = "iterate" /\ rplan'.last.unspec

\* C35 as stated: when the nameserver elected for the current query has no
\* address, then if the query is not flagged AWAIT_ADDR and no query from it
\* upwards asks for the A or AAAA of the nameserver's name, exactly two
\* queries, AAAA and then A, are pushed under it and it is flagged;
\* otherwise it is popped and nothing is pushed.
C35_TwoSubqueries ==
    [][NsRound =>
        LET cur == rplan'.last.q
            ns == rplan'.last.name
        IN  IF \/ "AWAIT_ADDR" \in rplan.queries[cur].flags
               \/ Asked(cur, {ns, knot_dname_to_lower(ns)})
            THEN Popped(cur)
            ELSE /\ Parked(cur)
                 /\ Len(Added) = 2
                 /\ Added[1].stype = KNOT_RRTYPE_AAAA
                 /\ Added[2].stype = KNOT_RRTYPE_A]_vars

\* C35, amended: the test is whether the query is flagged AWAIT_ADDR or a
\* query from it upwards has, as its lowercased name, the very bytes of the
\* elected name and type A or AAAA; if so the query is popped and nothing
\* is pushed; if not the query is flagged and AAAA, then A, are pushed
\* under it, each unless its allocation fails.  A flagged query is never
\* flagged again, and no query pushed is its own ancestor.
C35_ParkedOnce ==
    [][/\ NsRound =>
            LET cur == rplan'.last.q
                ns == rplan'.last.name
            IN  IF "AWAIT_ADDR" \in rplan.queries[cur].flags \/ Asked(cur, {ns})
                THEN Popped(cur)
                ELSE /\ Parked(cur)
                     /\ Len(Added) <= 2
                     /\ Len(Added) = 2 =>
                            /\ Added[1].stype = KNOT_RRTYPE_AAAA
                            /\ Added[2].stype = KNOT_RRTYPE_A
                     /\ Len(Added) = 1 =>
                            Added[1].stype \in {KNOT_RRTYPE_AAAA, KNOT_RRTYPE_A}
                     /\ (Len(Added) < 2 => env.palloc)
       /\ \A q \in 1..Len(rplan'.queries) : rplan'.queries[q].parent < q]_vars
\* A query parked earlier, whose two address queries are done, comes up
\* again with its nameserver still without an address, and is popped.
C35_Witness ==
    /\ rplan.last.op = "iterate"
    /\ rplan.last.unspec
    /\ "AWAIT_ADDR" \in rplan.queries[rplan.last.q].flags
    /\ rplan.resolved # <<>>
    /\ rplan.resolved[Len(rplan.resolved)] = rplan.last.q
    /\ \E a, b \in 1..Len(rplan.queries) :
           /\ a # b
           /\ rplan.queries[a].parent = rplan.last.q
           /\ rplan.queries[b].parent = rplan.last.q
           /\ rplan.queries[a].stype = KNOT_RRTYPE_AAAA
           /\ rplan.queries[b].stype = KNOT_RRTYPE_A

\* C36: whenever subreq_lead registers a task as leader, the outstanding
\* table held no entry for the task's fingerprint (the assertion of
\* subreq_lead holds), so no leader is overwritten; also when the waiting
\* list of the leader found could not be grown.
C36_LeadOnFreeKey == "assert_lead_contains" \notin errs

\* C37: whenever a subquery datagram was sent or a connect started, the
\* address list has at least one entry and the target is an entry of it
\* (its index is below addrlist_count), and the remainder by addrlist_count
\* is never taken with addrlist_count = 0; also when produce hands out a
\* list whose first entry is the terminator.
C37_ValidTarget ==
    /\ "div_by_zero" \notin errs
    /\ \A t \in TaskIds :
           tasks[t].st = "live" =>
               \A i \in 1..Len(tasks[t].pending) :
                   tasks[t].pending[i].ph # "idle" =>
                       /\ tasks[t].addrlist_count >= 1
                       /\ tasks[t].pending[i].addr < tasks[t].addrlist_count

\* C38: every call of qr_task_step ends: each immediate re-entry of a task
\* comes after a produce call of the call before it, so that iter_count
\* (logged at every consume) grows from one call of the chain to the next
\* and the iteration limit ends the chain; also when consume returns a
\* state that is neither PRODUCE nor final.
C38_ReentryAdvances ==
    \A t \in TaskIds :
        \A i, j \in Events(log, "consume", t) : i < j => log[i].x < log[j].x

\* C39: when kr_cache_open returns, the transaction of the version check is
\* not open and the backend holds no write transaction, whatever the
\* backend calls of the check returned.
C39_NoTxnLeft ==
    res.op = "open" => (cache.txns[0].st # "open" /\ ~cache.wlock)

\* The leaders on whose waiting list task t is, once for every entry.
RECURSIVE Entries(_, _)
Entries(T, t) ==
    IF T = {} THEN 0
    ELSE LET L == CHOOSE x \in T : TRUE
         IN  (IF tasks[L].st = "live" THEN Count(tasks[L].waiting, t) ELSE 0)
             + Entries(T \ {L}, t)
LeadersOf(t) == {L \in TaskIds : tasks[L].st = "live" /\ Count(tasks[L].waiting, t) > 0}
Unfinished(t) == tasks[t].st = "live" /\ ~tasks[t].finished

\* C40: between callbacks every unfinished task has its timeout timer armed
\* or is on the waiting list of exactly one leader whose timeout timer is
\* armed; a task on a waiting list has no armed timer and no I/O handle
\* pending, is not in the outstanding table and leads nothing.
C40_Watched ==
    \A t \in TaskIds :
        /\ Unfinished(t) =>
               \/ tasks[t].timeout = "active"
               \/ /\ Entries(TaskIds, t) = 1
                  /\ \A L \in LeadersOf(t) : tasks[L].timeout = "active"
C40_FollowerIdle ==
    \A t \in TaskIds :
        (tasks[t].st = "live" /\ LeadersOf(t) # {}) =>
               /\ tasks[t].timeout # "active"
               /\ tasks[t].retry # "active"
               /\ tasks[t].pending = <<>>
               /\ \A k \in Keys : outstanding[k] # t
               /\ ~tasks[t].leading
C40_TimerOrLeader == C40_Watched /\ C40_FollowerIdle
\* A follower waits, unwatched itself, on a leader whose timer is armed.
C40_Witness ==
    \E f, L \in TaskIds :
        /\ f # L
        /\ Unfinished(f) /\ Unfinished(L)
        /\ LeadersOf(f) = {L}
        /\ tasks[L].leading
        /\ tasks[L].timeout = "active"
        /\ tasks[f].timeout # "active"

====
